---- MODULE Spec2Model ----
(***************************************************************************)
(* Model of the content script of the wallet tagger extension              *)
(* (src/src/content/index.ts) and of the address helpers it uses           *)
(* (src/src/utils/address.ts).                                            *)
(*                                                                         *)
(* The document is an arena of nodes (elements and text nodes) indexed by  *)
(* node ids; text is a sequence of one-character strings so that the       *)
(* regular expressions of the source are computed character by character.  *)
(* Timers (setTimeout) are records in the set `timers`; a timer fires at   *)
(* any moment after it was set unless clearTimeout removed it.             *)
(* Requests to the background page (chrome.runtime.sendMessage) are        *)
(* records in the set `inflight`; their answers arrive in any order.       *)
(***************************************************************************)
EXTENDS Integers, Sequences, FiniteSets, Bags, TLC

\* ------------------------------------------------------------------ bounds
MaxNodes == 26        \* size of the node arena
MaxTimers == 3        \* pending timers at any time
MaxInflight == 2      \* unanswered background requests at any time
MaxInserts == 1       \* host-page insertions in one behaviour
MaxReloads == 1       \* TAGS_UPDATED notifications in one behaviour
MaxLabels == 3        \* items in one answer of the labels endpoint
MaxRows == 1          \* table rows of one SnowScan page
MaxHandlers == 2      \* background messages being handled at any time
MaxQueries == 2       \* chrome.tabs.query calls whose callback has not run

\* ------------------------------------------------------- program constants
AddrHexLen == 40      \* hex digits of a full address
PageLimit == 100      \* the last page fetchSnowscanNotes asks for

NULL == 0
Body == 1             \* document.body

\* -------------------------------------------------------------- characters
HexChars ==
  {"0", "1", "2", "3", "4", "5", "6", "7", "8", "9",
   "a", "b", "c", "d", "e", "f", "A", "B", "C", "D", "E", "F"}

IsHex(c) == c \in HexChars

UpperChars == {"A", "B", "C", "D", "E", "F", "X"}

\* String.prototype.toLowerCase on one character of the model's alphabet
LowerChar(c) ==
  CASE c = "A" -> "a"
    [] c = "B" -> "b"
    [] c = "C" -> "c"
    [] c = "D" -> "d"
    [] c = "E" -> "e"
    [] c = "F" -> "f"
    [] c = "X" -> "x"
    [] OTHER -> c

Rep(c, n) == [i \in 1..n |-> c]

\* String.prototype.slice(from, to) with 0-based, non-negative indices
Slice(s, from, to) ==
  LET t == IF to > Len(s) THEN Len(s) ELSE to
  IN IF from >= t THEN << >> ELSE SubSeq(s, from + 1, t)

\* String.prototype.slice(-n)
SliceLast(s, n) == IF n >= Len(s) THEN s ELSE SubSeq(s, Len(s) - n + 1, Len(s))

\* String.prototype.includes
Includes(s, sub) ==
  \E i \in 0..(Len(s) - Len(sub)) : Slice(s, i, i + Len(sub)) = sub

\* -------------------------------------------------- src/src/utils/address.ts
normalizeAddress(address) == [i \in 1..Len(address) |-> LowerChar(address[i])]

\* /0x[a-fA-F0-9]{40}/ with the i flag, tried at the 1-based position i
FullAddressAt(text, i) ==
  /\ i + AddrHexLen + 1 <= Len(text)
  /\ text[i] = "0"
  /\ text[i + 1] \in {"x", "X"}
  /\ \A k \in 2..(AddrHexLen + 1) : IsHex(text[i + k])

RECURSIVE FindFullFrom(_, _)
FindFullFrom(text, i) ==
  IF i > Len(text) THEN << >>
  ELSE IF FullAddressAt(text, i)
       THEN << [address |-> normalizeAddress(SubSeq(text, i, i + AddrHexLen + 1)),
                fullMatch |-> SubSeq(text, i, i + AddrHexLen + 1),
                startIndex |-> i - 1,
                endIndex |-> i + AddrHexLen + 1,
                isTruncated |-> FALSE] >>
            \o FindFullFrom(text, i + AddrHexLen + 2)
       ELSE FindFullFrom(text, i + 1)

\* a findAddressesInText whose expression lacks the g flag: exec finds the
\* first match again and again, the loop is cut after one
findAddressesInTextFirstOnly(text) ==
  LET ms == FindFullFrom(text, 1)
  IN IF Len(ms) = 0 THEN ms ELSE <<ms[1]>>

findAddressesInText(text) == FindFullFrom(text, 1)

\* first match of /0x[a-fA-F0-9]{40}/i in a string, or << >>
FirstFullAddress(s) ==
  LET ms == findAddressesInText(s)
  IN IF Len(ms) = 0 THEN << >> ELSE ms[1].fullMatch

\* a truncation that counts the 0x among the leading characters
truncateAddressCountsZeroX(address, startChars, endChars) ==
  IF Len(address) <= startChars + endChars + 2
  THEN address
  ELSE Slice(address, 0, startChars) \o <<".", ".", ".">> \o SliceLast(address, endChars)

truncateAddress(address, startChars, endChars) ==
  IF Len(address) <= startChars + endChars + 2
  THEN address
  ELSE Slice(address, 0, startChars + 2) \o <<".", ".", ".">> \o SliceLast(address, endChars)

\* length of the maximal run of characters of the set cs starting at the
\* 1-based position i
RECURSIVE RunLen(_, _, _)
RunLen(text, i, cs) ==
  IF i > Len(text) \/ text[i] \notin cs THEN 0 ELSE 1 + RunLen(text, i + 1, cs)

Min(a, b) == IF a < b THEN a ELSE b

\* /0x([a-fA-F0-9]{lo,hi})\.{2,3}([a-fA-F0-9]{lo,hi})/i tried at the 1-based
\* position i.  The quantifiers are greedy and backtrack: the prefix group
\* can only end where the hex run ends (a shorter prefix is followed by a hex
\* digit, not a dot), the dots group only where the dot run ends, and the
\* suffix group takes as many hex digits as it can, at most hi.
TruncAt(text, i, lo, hi) ==
  LET n == RunLen(text, i + 2, HexChars)
      d == RunLen(text, i + 2 + n, {"."})
      m == RunLen(text, i + 2 + n + d, HexChars)
      ok == /\ i + 1 <= Len(text)
            /\ text[i] = "0"
            /\ text[i + 1] \in {"x", "X"}
            /\ n >= lo /\ n <= hi
            /\ d \in {2, 3}
            /\ m >= lo
  IN [found |-> ok,
      index |-> i - 1,
      length |-> IF ok THEN 2 + n + d + Min(m, hi) ELSE 0,
      prefix |-> IF ok THEN SubSeq(text, i + 2, i + 1 + n) ELSE << >>,
      suffix |-> IF ok THEN SubSeq(text, i + 2 + n + d, i + 1 + n + d + Min(m, hi))
                 ELSE << >>]

NoMatch == [found |-> FALSE, index |-> 0, length |-> 0, prefix |-> << >>, suffix |-> << >>]

\* leftmost match of the truncated pattern at or after the 1-based position i
RECURSIVE TruncFrom(_, _, _, _)
TruncFrom(text, i, lo, hi) ==
  IF i > Len(text) THEN NoMatch
  ELSE IF TruncAt(text, i, lo, hi).found THEN TruncAt(text, i, lo, hi)
       ELSE TruncFrom(text, i + 1, lo, hi)

\* the known addresses, in list order, that agree with prefix and suffix
RECURSIVE FirstKnown(_, _, _, _)
FirstKnown(known, k, prefix, suffix) ==
  IF k > Len(known) THEN << >>
  ELSE LET normalized == normalizeAddress(known[k])
       IN IF /\ Slice(normalized, 2, 2 + Len(prefix)) = prefix
             /\ SliceLast(normalized, Len(suffix)) = suffix
          THEN normalized
          ELSE FirstKnown(known, k + 1, prefix, suffix)

\* returns the matched known address, or << >> for null
matchTruncatedAddress(truncated, known) ==
  LET match == TruncFrom(truncated, 1, 3, 8)
  IN IF ~match.found THEN << >>
     ELSE FirstKnown(known, 1, normalizeAddress(match.prefix),
                     normalizeAddress(match.suffix))

\* /\(0x[a-fA-F0-9]{3,6}\)/i tried at the 1-based position i
ShortAt(text, i) ==
  LET n == RunLen(text, i + 3, HexChars)
      ok == /\ i + 2 <= Len(text)
            /\ text[i] = "("
            /\ text[i + 1] = "0"
            /\ text[i + 2] \in {"x", "X"}
            /\ n >= 3 /\ n <= 6
            /\ i + 3 + n <= Len(text)
            /\ text[i + 3 + n] = ")"
  IN [found |-> ok, index |-> i - 1, length |-> IF ok THEN n + 4 ELSE 0,
      prefix |-> IF ok THEN SubSeq(text, i + 3, i + 2 + n) ELSE << >>,
      suffix |-> << >>]

\* the short-form comparator: the first known address whose hex digits hold
\* the fragment in some window
RECURSIVE FirstKnownShort(_, _, _)
FirstKnownShort(known, k, frag) ==
  IF k > Len(known) THEN << >>
  ELSE LET normalized == normalizeAddress(known[k])
       IN IF Includes(Slice(normalized, 2, Len(normalized)), frag)
          THEN normalized
          ELSE FirstKnownShort(known, k + 1, frag)

matchShortAddress(short, known) ==
  LET m == ShortAt(short, 1)
  IN IF ~m.found THEN << >>
     ELSE FirstKnownShort(known, 1, normalizeAddress(m.prefix))

\* ------------------------------------------------------------ the document
NodeIds == 1..MaxNodes

\* a statement runs once: v is evaluated once and F gets its value
With(v, F(_)) == CHOOSE r \in {F(x) : x \in {v}} : TRUE

\* the attributes the scan reads; << >> stands for an absent attribute
NoAttrs == [title |-> << >>, data_address |-> << >>, href |-> << >>, data_hint |-> << >>]

FreeNode ==
  [kind |-> "free", parent |-> NULL, tag |-> "", cls |-> {}, attrs |-> NoAttrs,
   kids |-> << >>, text |-> << >>]

\* document.createTextNode
TextNode(t) ==
  [kind |-> "text", parent |-> NULL, tag |-> "#text", cls |-> {}, attrs |-> NoAttrs,
   kids |-> << >>, text |-> t]

\* document.createElement, with its className and attributes set
Element(tag, cls, attrs) ==
  [kind |-> "el", parent |-> NULL, tag |-> tag, cls |-> cls, attrs |-> attrs,
   kids |-> << >>, text |-> << >>]

FreeIds(d) == {i \in NodeIds : d[i].kind = "free"}

\* the id a newly created node gets
FirstFree(d) == CHOOSE i \in FreeIds(d) : \A j \in FreeIds(d) : i <= j

\* createElement / createTextNode: the node exists but is not in the document
Create(d, node) ==
  With(FirstFree(d), LAMBDA id : [dom |-> [d EXCEPT ![id] = node], id |-> id])

\* Node.appendChild
AppendChild(d, p, c) ==
  [d EXCEPT ![p].kids = Append(@, c), ![c].parent = p]

RECURSIVE SubtreeIds(_, _)
RECURSIVE SubtreeOfKids(_, _, _)
SubtreeIds(d, n) == {n} \cup SubtreeOfKids(d, d[n].kids, 1)
SubtreeOfKids(d, kids, i) ==
  IF i > Len(kids) THEN {}
  ELSE SubtreeIds(d, kids[i]) \cup SubtreeOfKids(d, kids, i + 1)

IndexOf(seq, x) == CHOOSE i \in 1..Len(seq) : seq[i] = x

RemoveAt(seq, i) == SubSeq(seq, 1, i - 1) \o SubSeq(seq, i + 1, Len(seq))

\* a detached subtree is unreachable from the program: its ids are recycled
FreeSubtree(d, n) ==
  With(SubtreeIds(d, n), LAMBDA gone :
    [i \in NodeIds |-> IF i \in gone THEN FreeNode ELSE d[i]])

\* Element.remove
RemoveNode(d, n) ==
  LET p == d[n].parent
  IN With(IF p = NULL THEN d
          ELSE [d EXCEPT ![p].kids = RemoveAt(@, IndexOf(@, n))],
          LAMBDA d1 : FreeSubtree(d1, n))

\* parent.replaceChild(fragment, old) and old.replaceWith(...): the nodes of
\* news take the place of old among the children of parent
ReplaceChild(d, parent, old, news) ==
  With(IndexOf(d[parent].kids, old), LAMBDA i :
  With([d EXCEPT ![parent].kids =
                   SubSeq(@, 1, i - 1) \o news \o SubSeq(@, i + 1, Len(@))], LAMBDA d1 :
  With([j \in NodeIds |->
          IF \E k \in 1..Len(news) : news[k] = j
          THEN [d1[j] EXCEPT !.parent = parent]
          ELSE d1[j]], LAMBDA d2 :
  FreeSubtree(d2, old))))

\* classList.add / classList.remove
AddClass(d, e, c) == [d EXCEPT ![e].cls = @ \cup {c}]
RemoveClass(d, e, c) == [d EXCEPT ![e].cls = @ \ {c}]

\* the nodes of the subtree of n in document order
RECURSIVE NodesUnder(_, _)
RECURSIVE NodesOfKids(_, _, _)
NodesUnder(d, n) == <<n>> \o NodesOfKids(d, d[n].kids, 1)
NodesOfKids(d, kids, i) ==
  IF i > Len(kids) THEN << >>
  ELSE NodesUnder(d, kids[i]) \o NodesOfKids(d, kids, i + 1)

\* document.querySelectorAll('.' + c): a static list in document order
QuerySelectorAll(d, c) ==
  SelectSeq(NodesUnder(d, Body), LAMBDA n : d[n].kind = "el" /\ c \in d[n].cls)

\* Element.closest(tag): the element itself or its nearest ancestor
RECURSIVE Closest(_, _, _)
Closest(d, e, tag) ==
  IF e = NULL THEN NULL
  ELSE IF d[e].tag = tag THEN e
       ELSE Closest(d, d[e].parent, tag)

\* Node.contains
RECURSIVE Contains(_, _, _)
Contains(d, anc, n) ==
  IF n = NULL THEN FALSE
  ELSE IF n = anc THEN TRUE
       ELSE Contains(d, anc, d[n].parent)

\* an isAlreadyProcessed that knows the marker but not the classes of the
\* extension's UI
ProcessedClassesMarkerOnly == {"wt-processed"}

\* --------------------------------------------- src/src/content/index.ts
ProcessedClasses ==
  {"wt-processed", "wt-address-wrapper", "wt-address-text", "wt-indicator",
   "wt-control-panel", "wt-control-panel-bridge", "wt-panel-header",
   "wt-panel-address"}

\* an isAlreadyProcessed that looks at the element only, not at its ancestors
isAlreadyProcessedSelfOnly(d, element) ==
  element # NULL /\ d[element].cls \cap ProcessedClasses # {}

RECURSIVE isAlreadyProcessed(_, _)
isAlreadyProcessed(d, element) ==
  IF element = NULL THEN FALSE
  ELSE IF d[element].cls \cap ProcessedClasses # {} THEN TRUE
       ELSE isAlreadyProcessed(d, d[element].parent)

SkippedTags == {"script", "style", "noscript", "textarea", "input"}

\* an acceptNode filter without the check for processed ancestors
acceptNodeUnmarked(d, node) ==
  LET parent == d[node].parent
  IN /\ parent # NULL
     /\ d[parent].tag \notin SkippedTags

\* the acceptNode filter of the tree walker of scanPage
acceptNode(d, node) ==
  LET parent == d[node].parent
  IN /\ parent # NULL
     /\ d[parent].tag \notin SkippedTags
     /\ ~isAlreadyProcessed(d, parent)

\* an element with one text node as its only child (el.textContent = t)
CreateWithText(d, tag, cls, attrs, t) ==
  With(Create(d, Element(tag, cls, attrs)), LAMBDA e :
  With(Create(e.dom, TextNode(t)), LAMBDA x :
  [dom |-> AppendChild(x.dom, e.id, x.id), id |-> e.id]))

\* a createAddressElement that shows the address it was given, not the
\* text it replaces
createAddressElementShowsAddress(d, address, displayText, cache) ==
  With(Create(d, Element("span", {"wt-address-wrapper"},
                         [NoAttrs EXCEPT !.data_address = address])), LAMBDA wrapper :
  With(CreateWithText(wrapper.dom, "span", {"wt-address-text"}, NoAttrs, address),
       LAMBDA textSpan :
  [dom |-> AppendChild(textSpan.dom, wrapper.id, textSpan.id), id |-> wrapper.id]))

\* cache is the tag cache: a function from normalized addresses to records
createAddressElement(d, address, displayText, cache) ==
  With(Create(d, Element("span", {"wt-address-wrapper"},
                         [NoAttrs EXCEPT !.data_address = address])), LAMBDA wrapper :
  With(normalizeAddress(address), LAMBDA normalizedAddr :
  IF normalizedAddr \in DOMAIN cache
  THEN With(AddClass(wrapper.dom, wrapper.id, "wt-has-tag"), LAMBDA d1 :
       With(CreateWithText(d1, "span", {"wt-tag-label"}, NoAttrs,
                           cache[normalizedAddr].name), LAMBDA tagLabel :
       With(AppendChild(tagLabel.dom, wrapper.id, tagLabel.id), LAMBDA d2 :
       With(CreateWithText(d2, "span", {"wt-tag-short-address"}, NoAttrs,
                           <<" ", "(">> \o Slice(address, 0, 6) \o <<")">>),
            LAMBDA shortAddr :
       [dom |-> AppendChild(shortAddr.dom, wrapper.id, shortAddr.id),
        id |-> wrapper.id]))))
  ELSE With(CreateWithText(wrapper.dom, "span", {"wt-address-text"},
                           NoAttrs, displayText), LAMBDA textSpan :
       [dom |-> AppendChild(textSpan.dom, wrapper.id, textSpan.id),
        id |-> wrapper.id])))

\* a wrap that does not mark the parent
wrapWithAddressElementUnmarked(d, textNode, startIndex, length, fullAddress, cache) ==
  LET text == d[textNode].text
      parent == d[textNode].parent
  IN IF parent = NULL THEN d
     ELSE With(IF startIndex > 0
               THEN Create(d, TextNode(Slice(text, 0, startIndex)))
               ELSE [dom |-> d, id |-> NULL], LAMBDA before :
          With(Slice(text, startIndex, startIndex + length), LAMBDA displayText :
          With(createAddressElement(before.dom, fullAddress, displayText, cache),
               LAMBDA addressEl :
          With(IF startIndex + length < Len(text)
               THEN Create(addressEl.dom,
                           TextNode(Slice(text, startIndex + length, Len(text))))
               ELSE [dom |-> addressEl.dom, id |-> NULL], LAMBDA after :
          With((IF before.id = NULL THEN << >> ELSE <<before.id>>)
               \o <<addressEl.id>>
               \o (IF after.id = NULL THEN << >> ELSE <<after.id>>), LAMBDA fragment :
          ReplaceChild(after.dom, parent, textNode, fragment))))))

wrapWithAddressElement(d, textNode, startIndex, length, fullAddress, cache) ==
  LET text == d[textNode].text
      parent == d[textNode].parent
  IN IF parent = NULL THEN d
     ELSE With(AddClass(d, parent, "wt-processed"), LAMBDA d1 :
          With(IF startIndex > 0
               THEN Create(d1, TextNode(Slice(text, 0, startIndex)))
               ELSE [dom |-> d1, id |-> NULL], LAMBDA before :
          With(Slice(text, startIndex, startIndex + length), LAMBDA displayText :
          With(createAddressElement(before.dom, fullAddress, displayText, cache),
               LAMBDA addressEl :
          With(IF startIndex + length < Len(text)
               THEN Create(addressEl.dom,
                           TextNode(Slice(text, startIndex + length, Len(text))))
               ELSE [dom |-> addressEl.dom, id |-> NULL], LAMBDA after :
          With((IF before.id = NULL THEN << >> ELSE <<before.id>>)
               \o <<addressEl.id>>
               \o (IF after.id = NULL THEN << >> ELSE <<after.id>>), LAMBDA fragment :
          ReplaceChild(after.dom, parent, textNode, fragment)))))))

TxMark == <<"/", "t", "x", "/">>
TransactionMark == <<"/", "t", "r", "a", "n", "s", "a", "c", "t", "i", "o", "n", "/">>

\* a check for transaction links that never finds one
IsTxHrefNever(href) == FALSE

IsTxHref(href) == Includes(href, TxMark) \/ Includes(href, TransactionMark)

\* a search that prefers the hint of the farthest ancestor
RECURSIVE findAddressInAttributesFarthest(_, _)
findAddressInAttributesFarthest(d, element) ==
  IF element = NULL \/ element = Body THEN << >>
  ELSE LET a == d[element].attrs
           outer == findAddressInAttributesFarthest(d, d[element].parent)
           inTitle == FirstFullAddress(a.title)
           inData == FirstFullAddress(a.data_address)
           inHref == IF a.href # << >> /\ ~IsTxHref(a.href)
                     THEN FirstFullAddress(a.href) ELSE << >>
           inHint == FirstFullAddress(a.data_hint)
       IN IF outer # << >> THEN outer
          ELSE IF inTitle # << >> THEN normalizeAddress(inTitle)
          ELSE IF inData # << >> THEN normalizeAddress(inData)
          ELSE IF inHref # << >> THEN normalizeAddress(inHref)
          ELSE normalizeAddress(inHint)

\* returns the normalized address found in a hint attribute, or << >> for null
RECURSIVE findAddressInAttributes(_, _)
findAddressInAttributes(d, element) ==
  IF element = NULL \/ element = Body THEN << >>
  ELSE LET a == d[element].attrs
           inTitle == FirstFullAddress(a.title)
           inData == FirstFullAddress(a.data_address)
           inHref == IF a.href # << >> /\ ~IsTxHref(a.href)
                     THEN FirstFullAddress(a.href) ELSE << >>
           inHint == FirstFullAddress(a.data_hint)
       IN IF inTitle # << >> THEN normalizeAddress(inTitle)
          ELSE IF inData # << >> THEN normalizeAddress(inData)
          ELSE IF inHref # << >> THEN normalizeAddress(inHref)
          ELSE IF inHint # << >> THEN normalizeAddress(inHint)
          ELSE findAddressInAttributes(d, d[element].parent)

\* /0x[a-fA-F0-9]{4,8}/i tried at the 1-based position i
BareAt(text, i) ==
  LET n == RunLen(text, i + 2, HexChars)
      ok == /\ i + 1 <= Len(text)
            /\ text[i] = "0"
            /\ text[i + 1] \in {"x", "X"}
            /\ n >= 4
  IN [found |-> ok, index |-> i - 1, length |-> IF ok THEN 2 + Min(n, 8) ELSE 0,
      prefix |-> << >>, suffix |-> << >>]

\* text.match(/0x[..]{2,10}(\.{2,3})[..]{2,10}|0x[..]{4,8}/i): the leftmost
\* position where an alternative matches, the first alternative preferred
RECURSIVE AttrTextMatch(_, _)
AttrTextMatch(text, i) ==
  IF i > Len(text) THEN NoMatch
  ELSE IF TruncAt(text, i, 2, 10).found THEN TruncAt(text, i, 2, 10)
       ELSE IF BareAt(text, i).found THEN BareAt(text, i)
            ELSE AttrTextMatch(text, i + 1)

\* the exec loop over /0x[..]{2,10}\.{2,3}[..]{2,10}/gi: the first match that
\* resolves against the known addresses, as [found, index, length, address]
RECURSIVE FirstResolvedTruncated(_, _, _)
FirstResolvedTruncated(text, i, known) ==
  LET m == TruncFrom(text, i, 2, 10)
  IN IF ~m.found THEN [found |-> FALSE, index |-> 0, length |-> 0, address |-> << >>]
     ELSE LET matched == matchTruncatedAddress(
                           Slice(text, m.index, m.index + m.length), known)
          IN IF matched # << >>
             THEN [found |-> TRUE, index |-> m.index, length |-> m.length,
                   address |-> matched]
             ELSE FirstResolvedTruncated(text, m.index + m.length + 1, known)

RECURSIVE ShortFrom(_, _)
ShortFrom(text, i) ==
  IF i > Len(text) THEN NoMatch
  ELSE IF ShortAt(text, i).found THEN ShortAt(text, i)
       ELSE ShortFrom(text, i + 1)

\* the exec loop over /\(0x[..]{3,6}\)/gi
RECURSIVE FirstResolvedShort(_, _, _)
FirstResolvedShort(text, i, known) ==
  LET m == ShortFrom(text, i)
  IN IF ~m.found THEN [found |-> FALSE, index |-> 0, length |-> 0, address |-> << >>]
     ELSE LET matched == matchShortAddress(
                           Slice(text, m.index, m.index + m.length), known)
          IN IF matched # << >>
             THEN [found |-> TRUE, index |-> m.index, length |-> m.length,
                   address |-> matched]
             ELSE FirstResolvedShort(text, m.index + m.length + 1, known)

ZeroX == <<"0", "x">>

processTruncatedAddresses(d, textNode, cache, known) ==
  LET text == d[textNode].text
      parent == d[textNode].parent
  IN IF parent = NULL \/ isAlreadyProcessed(d, parent) THEN d
     ELSE LET closestLink == Closest(d, parent, "a")
              href == IF closestLink = NULL THEN << >> ELSE d[closestLink].attrs.href
          IN IF IsTxHref(href) THEN d
             ELSE With(findAddressInAttributes(d, parent), LAMBDA fullAddress :
                  With(AttrTextMatch(text, 1), LAMBDA truncatedMatch :
                  IF fullAddress # << >> /\ Includes(text, ZeroX) /\ truncatedMatch.found
                  THEN wrapWithAddressElement(d, textNode, truncatedMatch.index,
                                              truncatedMatch.length, fullAddress, cache)
                  ELSE With(FirstResolvedTruncated(text, 1, known), LAMBDA trunc :
                       IF trunc.found
                       THEN wrapWithAddressElement(d, textNode, trunc.index, trunc.length,
                                                   trunc.address, cache)
                       ELSE With(FirstResolvedShort(text, 1, known), LAMBDA short :
                            IF short.found
                            THEN wrapWithAddressElement(d, textNode, short.index,
                                                        short.length, short.address, cache)
                            ELSE d))))

\* the loop over the matches of processTextNode: the fragment built so far
RECURSIVE BuildFragment(_, _, _, _, _, _, _)
BuildFragment(d, text, matches, i, lastIndex, fragment, cache) ==
  IF i > Len(matches)
  THEN IF lastIndex < Len(text)
       THEN With(Create(d, TextNode(Slice(text, lastIndex, Len(text)))), LAMBDA rest :
            [dom |-> rest.dom, fragment |-> Append(fragment, rest.id)])
       ELSE [dom |-> d, fragment |-> fragment]
  ELSE With(matches[i], LAMBDA match :
       With(IF match.startIndex > lastIndex
            THEN Create(d, TextNode(Slice(text, lastIndex, match.startIndex)))
            ELSE [dom |-> d, id |-> NULL], LAMBDA before :
       With(createAddressElement(before.dom, match.address, match.fullMatch, cache),
            LAMBDA addressEl :
       With((IF before.id = NULL THEN fragment ELSE Append(fragment, before.id))
            \o <<addressEl.id>>, LAMBDA fragment1 :
       BuildFragment(addressEl.dom, text, matches, i + 1, match.endIndex,
                     fragment1, cache)))))

\* a processTextNode that tries the fallbacks whatever the known addresses
processTextNodeAlwaysFallback(d, textNode, cache, known) ==
  LET text == d[textNode].text
      parent == d[textNode].parent
  IN IF Len(findAddressesInText(text)) = 0
     THEN processTruncatedAddresses(d, textNode, cache, known)
     ELSE IF parent = NULL THEN d
          ELSE LET d1 == AddClass(d, parent, "wt-processed")
                   built == BuildFragment(d1, text, findAddressesInText(text), 1, 0,
                                          << >>, cache)
               IN ReplaceChild(built.dom, parent, textNode, built.fragment)

processTextNode(d, textNode, cache, known) ==
  LET text == d[textNode].text
      parent == d[textNode].parent
  IN With(findAddressesInText(text), LAMBDA matches :
     IF Len(matches) = 0
     THEN IF Len(known) > 0 THEN processTruncatedAddresses(d, textNode, cache, known)
          ELSE d
     ELSE IF parent = NULL THEN d
          ELSE With(AddClass(d, parent, "wt-processed"), LAMBDA d1 :
               With(BuildFragment(d1, text, matches, 1, 0, << >>, cache), LAMBDA built :
               ReplaceChild(built.dom, parent, textNode, built.fragment))))

\* the text nodes the tree walker of scanPage returns, in document order
NodesToProcess(d) ==
  SelectSeq(NodesUnder(d, Body), LAMBDA n : d[n].kind = "text" /\ acceptNode(d, n))

RECURSIVE ProcessNodes(_, _, _, _, _)
ProcessNodes(d, nodes, i, cache, known) ==
  IF i > Len(nodes) THEN d
  ELSE With(processTextNode(d, nodes[i], cache, known), LAMBDA d1 :
       ProcessNodes(d1, nodes, i + 1, cache, known))

\* scanPage as a function of the document, the settings flag and the cache
scanPage(d, isEnabled, cache, known) ==
  IF ~isEnabled THEN d
  ELSE With(d, LAMBDA document :
       With(NodesToProcess(document), LAMBDA nodesToProcess :
       ProcessNodes(document, nodesToProcess, 1, cache, known)))

\* an upper bound on the nodes one scan creates: at most six per match (two
\* text runs, a wrapper, two spans with a text node each, less one) and at
\* most seven for a text node wrapped by the fallback path
ScanCost(d) ==
  LET cost(n) == With(Len(findAddressesInText(d[n].text)), LAMBDA k :
                      IF k = 0 THEN 7 ELSE 6 * k + 1)
      RECURSIVE Sum(_, _)
      Sum(nodes, i) == IF i > Len(nodes) THEN 0
                       ELSE cost(nodes[i]) + Sum(nodes, i + 1)
  IN With(NodesToProcess(d), LAMBDA nodes : Sum(nodes, 1))

ScanFits(d) ==
  With(d, LAMBDA document : ScanCost(document) <= Cardinality(FreeIds(document)))

\* the handler of the GET_ALL_TAGS_DATA answer of the TAGS_UPDATED listener,
\* after the cache was replaced: clear the markers, unwrap, rescan
RECURSIVE ClearMarkers(_, _, _)
ClearMarkers(d, els, i) ==
  IF i > Len(els) THEN d
  ELSE With(RemoveClass(d, els[i], "wt-processed"), LAMBDA d1 :
       ClearMarkers(d1, els, i + 1))

RECURSIVE Unwrap(_, _, _)
Unwrap(d, els, i) ==
  IF i > Len(els) THEN d
  ELSE LET el == els[i]
       IN IF d[el].kind = "free" \/ d[el].parent = NULL
          THEN Unwrap(d, els, i + 1)
          ELSE With(Create(d, TextNode(d[el].attrs.data_address)), LAMBDA t :
               With(ReplaceChild(t.dom, d[el].parent, el, <<t.id>>), LAMBDA d1 :
               Unwrap(d1, els, i + 1)))

\* the document after the markers were cleared and the wrappers replaced
\* a TAGS_UPDATED handler that unwraps the address elements but leaves the
\* markers
UnwrapAllKeepsMarkers(d) ==
  Unwrap(d, QuerySelectorAll(d, "wt-address-wrapper"), 1)

UnwrapAll(d) ==
  With(QuerySelectorAll(d, "wt-processed"), LAMBDA marked :
  With(ClearMarkers(d, marked, 1), LAMBDA d1 :
  With(QuerySelectorAll(d1, "wt-address-wrapper"), LAMBDA wrappers :
  Unwrap(d1, wrappers, 1))))

\* --------------------------------------------------------------- the state
VARIABLES
  dom,                 \* the document: node id -> node
  origDom,             \* history: the document as the host page alone made it
  tagCache,            \* normalized address -> [name, entity]
  knownAddresses,      \* the keys of tagCache, in order
  enabled,
  pc,                  \* position of initialize(): "tags", "settings", "done", "failed"
  observing,           \* observeDOM() has run
  timers,              \* pending setTimeout callbacks
  showTimeout, hideTimeout, scanDebounce,
  controlPanel, controlPanelBridge,
  currentPanelAddress, pendingShowAddress,
  inflight,            \* sendMessage calls waiting for their answer
  hover,               \* the elements with listeners under the pointer, outermost first
  watch,               \* history of the pointer, for the properties of the hover
  inserts, reloads,    \* counters bounding host insertions and notifications
  tagMap,              \* fetchArkhamLabels: the Map from addresses to tags, in insertion order
  arkhamPc,            \* the position of importArkhamLabels / fetchArkhamLabels
  received,            \* history: the arkham records in the order they were processed
  background,          \* the service worker: handlers, keepAliveInterval, store, tab queries
  snowscan,            \* fetchSnowscanNotes: its position, currentPage and tags
  call                 \* one call of truncateAddress and matchTruncatedAddress

vars ==
  <<dom, origDom, tagCache, knownAddresses, enabled, pc, observing, timers,
    showTimeout, hideTimeout, scanDebounce, controlPanel, controlPanelBridge,
    currentPanelAddress, pendingShowAddress, inflight, hover, watch, inserts, reloads,
    tagMap, arkhamPc, received, background, snowscan, call>>

cacheVars == <<tagCache, knownAddresses>>
panelVars == <<controlPanel, controlPanelBridge, currentPanelAddress>>
boundVars == <<inserts, reloads>>
initVars == <<enabled, pc, observing>>
arkhamVars == <<tagMap, arkhamPc, received>>
sideVars == <<background, snowscan, call>>

NoAddr == << >>       \* null, for a variable that holds an address

\* ------------------------------------------------------------------ timers
\* A timer handle is modelled by what it refers to: the variable that was
\* assigned the result of setTimeout holds Live while that timer is pending
\* and Stale once it has fired; the timer records whether a variable still
\* holds its handle (held).  A timer whose handle was overwritten, or never
\* stored, is not held; n numbers the timers that are otherwise equal.
Live == 1
Stale == 2

Timer(kind, address, held, n) ==
  [kind |-> kind, address |-> address, held |-> held, n |-> n]

HeldTimers(ts, kind) == {t \in ts : t.kind = kind /\ t.held}

Copies(ts, kind, address) ==
  {t \in ts : ~t.held /\ t.kind = kind /\ t.address = address}

\* the variable of that kind is overwritten: its timer stays pending
Disown(ts, kind) ==
  (ts \ HeldTimers(ts, kind)) \cup
  {Timer(kind, t.address, FALSE, Cardinality(Copies(ts, kind, t.address)) + 1) :
     t \in HeldTimers(ts, kind)}

\* clearTimeout(v) for the variable v that holds the handles of that kind
ClearTimeout(ts, kind) == ts \ HeldTimers(ts, kind)

\* v = window.setTimeout(...)
SetTimeout(ts, kind, address) ==
  Disown(ts, kind) \cup {Timer(kind, address, TRUE, 0)}

\* setTimeout(...) whose handle is dropped
SetTimeoutUnheld(ts, kind, address) ==
  ts \cup {Timer(kind, address, FALSE, Cardinality(Copies(ts, kind, address)) + 1)}

\* of the timers that are equal but for n, the one with the largest n fires
CanFire(ts, t) ==
  /\ t \in ts
  /\ t.held \/ t.n = Cardinality(Copies(ts, t.kind, t.address))

\* the value of the variable v of the kind of t after t has fired
AfterFire(v, t) == IF t.held THEN Stale ELSE v

\* requests that are equal are numbered by n
Request(type, address, n) == [type |-> type, address |-> address, n |-> n]

SameRequests(reqs, type, address) ==
  {r \in reqs : r.type = type /\ r.address = address}

SendMessage(reqs, type, address) ==
  reqs \cup {Request(type, address, Cardinality(SameRequests(reqs, type, address)) + 1)}

CanAnswer(reqs, r) ==
  /\ r \in reqs
  /\ r.n = Cardinality(SameRequests(reqs, r.type, r.address))

\* an observer callback without its clearTimeout
ObserverTimersNoClear(ts) == SetTimeout(ts, "scan", NoAddr)

\* the MutationObserver callback of observeDOM for a batch with added nodes:
\* clearTimeout(scanDebounce); scanDebounce = setTimeout(scanPage, 500)
ObserverTimers(ts) == SetTimeout(ClearTimeout(ts, "scan"), "scan", NoAddr)

\* ------------------------------------------------- host pages and answers
AddrA == ZeroX \o Rep("a", AddrHexLen)
AddrB == ZeroX \o Rep("b", AddrHexLen)
MixedA == <<"0", "x", "A">> \o Rep("a", AddrHexLen - 1)     \* checksum casing
TruncA == ZeroX \o Rep("a", 4) \o <<".", ".", ".">> \o Rep("a", 4)
TruncB == ZeroX \o Rep("b", 4) \o <<".", ".", ".">> \o Rep("b", 4)
TxHash == ZeroX \o Rep("c", 64)

El(parent, tag, cls, attrs, kids) ==
  [Element(tag, cls, attrs) EXCEPT !.parent = parent, !.kids = kids]

Tx(parent, t) == [TextNode(t) EXCEPT !.parent = parent]

MkPage(nodes) == [i \in NodeIds |-> IF i <= Len(nodes) THEN nodes[i] ELSE FreeNode]

\* a paragraph with a checksum-cased address, and a script
PageFull ==
  MkPage(<< El(NULL, "body", {}, NoAttrs, <<2, 4>>),
            El(Body, "p", {}, NoAttrs, <<3>>),
            Tx(2, <<"s", " ">> \o MixedA \o <<" ", "t">>),
            El(Body, "script", {}, NoAttrs, <<5>>),
            Tx(4, AddrB) >>)

\* a link to an address showing its truncated form, and a paragraph with two
\* truncated forms
PageTrunc ==
  MkPage(<< El(NULL, "body", {}, NoAttrs, <<2, 4>>),
            El(Body, "a", {}, [NoAttrs EXCEPT !.href = <<"/", "a", "/">> \o AddrB], <<3>>),
            Tx(2, TruncB),
            El(Body, "p", {}, NoAttrs, <<5>>),
            Tx(4, TruncA \o <<" ">> \o TruncB) >>)

\* a transaction link showing a truncated form, and a titled span
PageTx ==
  MkPage(<< El(NULL, "body", {}, NoAttrs, <<2, 4>>),
            El(Body, "a", {}, [NoAttrs EXCEPT !.href = <<"/", "t", "x", "/">> \o TxHash], <<3>>),
            Tx(2, TruncA),
            El(Body, "span", {}, [NoAttrs EXCEPT !.title = MixedA], <<5>>),
            Tx(4, ZeroX \o Rep("a", 4)) >>)

Pages == {PageFull, PageTrunc, PageTx}

\* a page with one paragraph that holds the text t
PageOf(t) ==
  MkPage(<< El(NULL, "body", {}, NoAttrs, <<2>>),
            El(Body, "p", {}, NoAttrs, <<3>>),
            Tx(2, t) >>)

Trunc9A == ZeroX \o Rep("a", 9) \o <<".", ".", ".">> \o Rep("a", 4)
TruncUpperA == ZeroX \o Rep("A", 3) \o <<".", ".">> \o Rep("a", 10)

\* the texts of the host page: full addresses alone, in checksum casing,
\* between other text, side by side, with an upper-case X; hex runs that are
\* too short or too long; truncated and short forms
TextInputs ==
  { MixedA,
    <<"s", " ">> \o MixedA \o <<" ", "t">>,
    AddrA \o AddrB,
    AddrA \o <<" ">> \o AddrB \o <<" ", "s">>,
    <<"s">> \o AddrB \o <<" ">> \o MixedA \o <<",">> \o AddrB,
    <<"0", "X">> \o Rep("a", AddrHexLen),
    ZeroX \o Rep("a", AddrHexLen - 1) \o <<"g">>,
    TxHash,
    <<"t", "x", " ">> \o TxHash \o <<" ">> \o AddrB,
    MixedA \o Rep("b", 2),
    TruncA,
    Trunc9A,
    TruncUpperA,
    <<"(">> \o ZeroX \o Rep("a", 4) \o <<")">>,
    <<"n", "o", "n", "e">> }

TextPages == {PageOf(t) : t \in TextInputs}

\* the text the host page inserts later
InsertTexts == {AddrB}

NameFoo == <<"F", "o", "o">>

\* the answers to GET_ALL_TAGS_DATA: hasTags is false when the answer has no
\* tags member (the background answered with an error)
TagAnswers ==
  { [hasTags |-> FALSE, tags |-> << >>],
    [hasTags |-> TRUE, tags |-> << >>],
    [hasTags |-> TRUE,
     tags |-> << [address |-> AddrA, name |-> NameFoo, entity |-> << >>] >>] }

\* new Map(Object.entries(response.tags))
CacheOf(tags) ==
  [a \in {tags[i].address : i \in 1..Len(tags)} |->
     LET i == CHOOSE j \in 1..Len(tags) : tags[j].address = a
     IN [name |-> tags[i].name, entity |-> tags[i].entity]]

\* Array.from(tagCache.keys())
KeysOf(tags) == [i \in 1..Len(tags) |-> tags[i].address]

EmptyCache == CacheOf(<< >>)

\* ------------------------------------------- the Arkham import (index.ts)
NameBar == <<"B", "a", "r">>
NameAcme == <<"A", "c", "m", "e">>
NameBeta == <<"B", "e", "t", "a">>

Undefined == << >>     \* an optional member that is absent

\* a Map is kept as its entries in insertion order
MapHas(m, key) == \E i \in 1..Len(m) : m[i].key = key

\* Map.prototype.get: the value, or Undefined
MapGet(m, key) ==
  IF MapHas(m, key) THEN m[CHOOSE i \in 1..Len(m) : m[i].key = key].value
  ELSE Undefined

\* Map.prototype.set: the value of an existing key is replaced in place
MapSet(m, key, value) ==
  IF MapHas(m, key)
  THEN [i \in 1..Len(m) |-> IF m[i].key = key THEN [key |-> key, value |-> value]
                             ELSE m[i]]
  ELSE Append(m, [key |-> key, value |-> value])

\* Array.from(tagMap.values())
MapValues(m) == [i \in 1..Len(m) |-> m[i].value]

Tag(address, name, entity, source) ==
  [address |-> address, name |-> name, entity |-> entity, source |-> source]

\* the loop over entity.addresses.evm of one entity
RECURSIVE SetEntityAddresses(_, _, _, _)
SetEntityAddresses(m, entity, evmAddresses, i) ==
  IF i > Len(evmAddresses) THEN m
  ELSE With(normalizeAddress(evmAddresses[i]), LAMBDA normalized :
       With(MapSet(m, normalized, Tag(normalized, entity.name, entity.name, "arkham")),
            LAMBDA m1 :
       SetEntityAddresses(m1, entity, evmAddresses, i + 1)))

\* the loop over entitiesData
RECURSIVE SetEntities(_, _, _)
SetEntities(m, entitiesData, i) ==
  IF i > Len(entitiesData) THEN m
  ELSE With(SetEntityAddresses(m, entitiesData[i], entitiesData[i].evm, 1), LAMBDA m1 :
       SetEntities(m1, entitiesData, i + 1))

\* a loop over labelsData that does not look at the entry the map holds
RECURSIVE SetLabelsErasesEntity(_, _, _)
SetLabelsErasesEntity(m, labelsData, i) ==
  IF i > Len(labelsData) THEN m
  ELSE With(labelsData[i], LAMBDA item :
       IF item.chainType = "evm"
       THEN With(normalizeAddress(item.address), LAMBDA normalized :
            With(MapSet(m, normalized, Tag(normalized, item.name, Undefined, "arkham")),
                 LAMBDA m1 :
            SetLabelsErasesEntity(m1, labelsData, i + 1)))
       ELSE SetLabelsErasesEntity(m, labelsData, i + 1))

\* the loop over labelsData
RECURSIVE SetLabels(_, _, _)
SetLabels(m, labelsData, i) ==
  IF i > Len(labelsData) THEN m
  ELSE With(labelsData[i], LAMBDA item :
       IF item.chainType = "evm"
       THEN With(normalizeAddress(item.address), LAMBDA normalized :
            With(MapGet(m, normalized), LAMBDA existing :
            With(MapSet(m, normalized,
                        Tag(normalized, item.name,
                            IF existing = Undefined THEN Undefined ELSE existing.entity,
                            "arkham")), LAMBDA m1 :
            SetLabels(m1, labelsData, i + 1))))
       ELSE SetLabels(m, labelsData, i + 1))

\* the records the two loops process, in order: what the address receives
RECURSIVE EntityRecords(_, _)
EntityRecords(entitiesData, i) ==
  IF i > Len(entitiesData) THEN << >>
  ELSE [k \in 1..Len(entitiesData[i].evm) |->
          [address |-> entitiesData[i].evm[k], name |-> entitiesData[i].name,
           entity |-> entitiesData[i].name]]
       \o EntityRecords(entitiesData, i + 1)

LabelRecords(labelsData) ==
  LET evm == SelectSeq(labelsData, LAMBDA item : item.chainType = "evm")
  IN [k \in 1..Len(evm) |->
        [address |-> evm[k].address, name |-> evm[k].name, entity |-> Undefined]]

\* the answers of api.arkm.com/user/entities
Entity(name, evm) == [name |-> name, evm |-> evm]

EntityInputs ==
  { << >>,
    << Entity(NameAcme, <<AddrA>>) >>,
    << Entity(NameAcme, <<MixedA, AddrB>>) >>,
    << Entity(NameAcme, <<AddrA>>), Entity(NameBeta, <<AddrA>>) >>,
    << Entity(NameBeta, <<AddrB>>), Entity(NameAcme, << >>) >> }

\* the answers of api.arkm.com/user/labels
Label(address, name, chainType) ==
  [address |-> address, name |-> name, chainType |-> chainType]

LabelItems ==
  { Label(AddrA, NameFoo, "evm"), Label(MixedA, NameBar, "evm"),
    Label(AddrB, NameBar, "evm"), Label(AddrA, NameBeta, "solana") }

LabelInputs == UNION {[1..n -> LabelItems] : n \in 0..MaxLabels}

\* the service worker has no message, no scrape and no call are under way
BackgroundIdle ==
  [handlers |-> EmptyBag, responses |-> EmptyBag, keepAliveInterval |-> NULL, intervals |-> 0,
   store |-> {}, tabQueries |-> 0, sent |-> {}]

SnowscanIdle == [pc |-> "idle", currentPage |-> 1, tags |-> 0, fetched |-> 0]

CallIdle ==
  [pc |-> "idle", address |-> << >>, startChars |-> 0, endChars |-> 0,
   truncated |-> << >>, matched |-> << >>]

SideIdle ==
  /\ background = BackgroundIdle
  /\ snowscan = SnowscanIdle
  /\ call = CallIdle

ArkhamIdle ==
  /\ tagMap = << >>
  /\ arkhamPc = "idle"
  /\ received = << >>

otherVars ==
  <<dom, origDom, cacheVars, initVars, timers, showTimeout, hideTimeout, scanDebounce,
    panelVars, pendingShowAddress, inflight, hover, watch, boundVars>>

\* the click on the import button: importArkhamLabels calls fetchArkhamLabels,
\* which creates the map and waits for the entities
ImportClick ==
  /\ arkhamPc = "idle"
  /\ tagMap' = << >>
  /\ received' = << >>
  /\ arkhamPc' = "entities"
  /\ UNCHANGED <<otherVars, sideVars>>

\* the answer to the fetch of the entities arrives; the labels are fetched
EntitiesAnswer(ok, entitiesData) ==
  /\ arkhamPc = "entities"
  /\ IF ok
     THEN /\ tagMap' = SetEntities(tagMap, entitiesData, 1)
          /\ received' = received \o EntityRecords(entitiesData, 1)
     ELSE UNCHANGED <<tagMap, received>>
  /\ arkhamPc' = "labels"
  /\ UNCHANGED <<otherVars, sideVars>>

\* the answer to the fetch of the labels arrives; fetchArkhamLabels returns
\* the values of the map, or throws when there are none
LabelsAnswer(ok, labelsData) ==
  /\ arkhamPc = "labels"
  /\ IF ok
     THEN /\ tagMap' = SetLabels(tagMap, labelsData, 1)
          /\ received' = received \o LabelRecords(labelsData)
     ELSE UNCHANGED <<tagMap, received>>
  /\ arkhamPc' = IF Len(MapValues(tagMap')) = 0 THEN "thrown" ELSE "returned"
  /\ UNCHANGED <<otherVars, sideVars>>

\* a fetch rejects: fetchArkhamLabels throws
FetchFails ==
  /\ arkhamPc \in {"entities", "labels"}
  /\ arkhamPc' = "thrown"
  /\ UNCHANGED <<tagMap, received>>
  /\ UNCHANGED <<otherVars, sideVars>>

\* ----------------------------------------------------- scanning: actions
\* the state of the content script when its module has been evaluated and
\* initialize() waits for the answer to GET_ALL_TAGS_DATA
InitScan ==
  /\ dom \in Pages
  /\ origDom = dom
  /\ tagCache = EmptyCache
  /\ knownAddresses = << >>
  /\ enabled = TRUE
  /\ pc = "tags"
  /\ observing = FALSE
  /\ timers = {}
  /\ showTimeout = NULL /\ hideTimeout = NULL /\ scanDebounce = NULL
  /\ controlPanel = NULL /\ controlPanelBridge = NULL
  /\ currentPanelAddress = NoAddr /\ pendingShowAddress = NoAddr
  /\ inflight = {}
  /\ hover = << >>
  /\ watch = [phase |-> "none", a |-> NoAddr, b |-> NoAddr, kept |-> FALSE]
  /\ inserts = 0 /\ reloads = 0
  /\ ArkhamIdle
  /\ SideIdle

\* the same for a page with one text
InitText ==
  /\ dom \in TextPages
  /\ origDom = dom
  /\ tagCache = EmptyCache
  /\ knownAddresses = << >>
  /\ enabled = TRUE
  /\ pc = "tags"
  /\ observing = FALSE
  /\ timers = {}
  /\ showTimeout = NULL /\ hideTimeout = NULL /\ scanDebounce = NULL
  /\ controlPanel = NULL /\ controlPanelBridge = NULL
  /\ currentPanelAddress = NoAddr /\ pendingShowAddress = NoAddr
  /\ inflight = {}
  /\ hover = << >>
  /\ watch = [phase |-> "none", a |-> NoAddr, b |-> NoAddr, kept |-> FALSE]
  /\ inserts = 0 /\ reloads = 0
  /\ ArkhamIdle
  /\ SideIdle

\* an initialize that is observed between its two assignments
InitTagsAnswerTorn(response) ==
  /\ pc = "tags"
  /\ IF response.hasTags
     THEN /\ tagCache' = CacheOf(response.tags)
          /\ UNCHANGED knownAddresses
     ELSE UNCHANGED cacheVars
  /\ pc' = "settings"
  /\ UNCHANGED <<dom, origDom, enabled, observing, timers, showTimeout, hideTimeout,
                 scanDebounce, panelVars, pendingShowAddress, inflight, hover, watch,
                 boundVars>>
  /\ UNCHANGED <<arkhamVars, sideVars>>

\* initialize(): the answer to GET_ALL_TAGS_DATA arrives
InitTagsAnswer(response) ==
  /\ pc = "tags"
  /\ IF response.hasTags
     THEN /\ tagCache' = CacheOf(response.tags)
          /\ knownAddresses' = KeysOf(response.tags)
     ELSE UNCHANGED cacheVars
  /\ pc' = "settings"
  /\ UNCHANGED <<dom, origDom, enabled, observing, timers, showTimeout, hideTimeout,
                 scanDebounce, panelVars, pendingShowAddress, inflight, hover, watch,
                 boundVars>>
  /\ UNCHANGED <<arkhamVars, sideVars>>

\* initialize(): sendMessage rejects, the async function ends there
InitFails ==
  /\ pc \in {"tags", "settings"}
  /\ pc' = "failed"
  /\ UNCHANGED <<dom, origDom, cacheVars, enabled, observing, timers, showTimeout,
                 hideTimeout, scanDebounce, panelVars, pendingShowAddress, inflight,
                 hover, watch, boundVars>>
  /\ UNCHANGED <<arkhamVars, sideVars>>

\* initialize(): the answer to GET_SETTINGS arrives; the first scan and
\* observeDOM() follow in the same turn when the extension is enabled
InitSettingsAnswer(isEnabled) ==
  /\ pc = "settings"
  /\ enabled' = isEnabled
  /\ pc' = "done"
  /\ IF isEnabled
     THEN /\ ScanFits(dom)
          /\ dom' = scanPage(dom, TRUE, tagCache, knownAddresses)
          /\ observing' = TRUE
     ELSE UNCHANGED <<dom, observing>>
  /\ UNCHANGED <<origDom, cacheVars, timers, showTimeout, hideTimeout, scanDebounce,
                 panelVars, pendingShowAddress, inflight, hover, watch, boundVars>>
  /\ UNCHANGED <<arkhamVars, sideVars>>

\* the elements of the host page a later insertion of the page can go to
HostElements == {n \in NodeIds : origDom[n].kind = "el"}

\* the host page appends a text node to one of its elements
HostInsert(parent, t) ==
  /\ inserts < MaxInserts
  /\ parent \in HostElements
  /\ FreeIds(dom) # {} /\ FreeIds(origDom) # {}
  /\ LET n == Create(dom, TextNode(t))
         o == Create(origDom, TextNode(t))
     IN /\ dom' = AppendChild(n.dom, parent, n.id)
        /\ origDom' = AppendChild(o.dom, parent, o.id)
  /\ inserts' = inserts + 1
  /\ IF observing
     THEN /\ Cardinality(ClearTimeout(timers, "scan")) < MaxTimers
          /\ timers' = ObserverTimers(timers)
          /\ scanDebounce' = Live
     ELSE UNCHANGED <<timers, scanDebounce>>
  /\ UNCHANGED <<cacheVars, initVars, showTimeout, hideTimeout, panelVars,
                 pendingShowAddress, inflight, hover, watch, reloads>>
  /\ UNCHANGED <<arkhamVars, sideVars>>

\* the debounce timer of observeDOM fires: scanPage runs; the nodes it adds
\* are reported to the observer, which sets the debounce timer again
ScanTimerFires(t) ==
  /\ CanFire(timers, t) /\ t.kind = "scan"
  /\ ScanFits(dom)
  /\ dom' = scanPage(dom, enabled, tagCache, knownAddresses)
  /\ IF dom' # dom /\ observing
     THEN /\ timers' = ObserverTimers(timers \ {t})
          /\ scanDebounce' = Live
     ELSE /\ timers' = timers \ {t}
          /\ scanDebounce' = AfterFire(scanDebounce, t)
  /\ UNCHANGED <<origDom, cacheVars, initVars, showTimeout, hideTimeout, panelVars,
                 pendingShowAddress, inflight, hover, watch, boundVars>>
  /\ UNCHANGED <<arkhamVars, sideVars>>

\* the background broadcasts TAGS_UPDATED: the listener asks for the tags
TagsUpdated ==
  /\ reloads < MaxReloads
  /\ Cardinality(inflight) < MaxInflight
  /\ inflight' = SendMessage(inflight, "GET_ALL_TAGS_DATA", NoAddr)
  /\ reloads' = reloads + 1
  /\ UNCHANGED <<dom, origDom, cacheVars, initVars, timers, showTimeout, hideTimeout,
                 scanDebounce, panelVars, pendingShowAddress, hover, watch, inserts>>
  /\ UNCHANGED <<arkhamVars, sideVars>>

\* a reload that adds the entries of the response to the cache it has
ReloadAnswerMerges(r, response) ==
  /\ CanAnswer(inflight, r) /\ r.type = "GET_ALL_TAGS_DATA"
  /\ inflight' = inflight \ {r}
  /\ IF response.hasTags
     THEN \E unwrapped \in {UnwrapAll(dom)},
             wrappers \in {QuerySelectorAll(dom, "wt-address-wrapper")} :
          LET gone == UNION {SubtreeIds(dom, wrappers[i]) : i \in 1..Len(wrappers)}
              new == CacheOf(response.tags)
          IN /\ tagCache' = [a \in DOMAIN tagCache \cup DOMAIN new |->
                               IF a \in DOMAIN new THEN new[a] ELSE tagCache[a]]
             /\ knownAddresses' =
                  KeysOf(response.tags)
                  \o SelectSeq(knownAddresses, LAMBDA a : a \notin DOMAIN new)
             /\ Len(wrappers) = 0 \/ FreeIds(dom) # {}
             /\ ScanFits(unwrapped)
             /\ dom' = scanPage(unwrapped, enabled, tagCache', knownAddresses')
             /\ hover' = SelectSeq(hover, LAMBDA n : n \notin gone)
             /\ IF (Len(wrappers) > 0 \/ dom' # unwrapped) /\ observing
                THEN /\ Cardinality(ClearTimeout(timers, "scan")) < MaxTimers
                     /\ timers' = ObserverTimers(timers)
                     /\ scanDebounce' = Live
                ELSE UNCHANGED <<timers, scanDebounce>>
     ELSE UNCHANGED <<dom, cacheVars, hover, timers, scanDebounce>>
  /\ UNCHANGED <<origDom, initVars, showTimeout, hideTimeout, panelVars,
                 pendingShowAddress, watch, boundVars>>
  /\ UNCHANGED <<arkhamVars, sideVars>>

\* the answer to the GET_ALL_TAGS_DATA of the TAGS_UPDATED listener arrives
ReloadAnswer(r, response) ==
  /\ CanAnswer(inflight, r) /\ r.type = "GET_ALL_TAGS_DATA"
  /\ inflight' = inflight \ {r}
  /\ IF response.hasTags
     THEN \E unwrapped \in {UnwrapAll(dom)},
             wrappers \in {QuerySelectorAll(dom, "wt-address-wrapper")} :
          LET gone == UNION {SubtreeIds(dom, wrappers[i]) : i \in 1..Len(wrappers)}
          IN /\ tagCache' = CacheOf(response.tags)
             /\ knownAddresses' = KeysOf(response.tags)
             /\ Len(wrappers) = 0 \/ FreeIds(dom) # {}
             /\ ScanFits(unwrapped)
             /\ dom' = scanPage(unwrapped, enabled, tagCache', knownAddresses')
             /\ hover' = SelectSeq(hover, LAMBDA n : n \notin gone)
             /\ IF (Len(wrappers) > 0 \/ dom' # unwrapped) /\ observing
                THEN /\ Cardinality(ClearTimeout(timers, "scan")) < MaxTimers
                     /\ timers' = ObserverTimers(timers)
                     /\ scanDebounce' = Live
                ELSE UNCHANGED <<timers, scanDebounce>>
     ELSE UNCHANGED <<dom, cacheVars, hover, timers, scanDebounce>>
  /\ UNCHANGED <<origDom, initVars, showTimeout, hideTimeout, panelVars,
                 pendingShowAddress, watch, boundVars>>
  /\ UNCHANGED <<arkhamVars, sideVars>>

\* ------------------------------------------------------- the hover panel
\* the answers to GET_TAGS: the tags of the address, or no answer at all
\* (sendMessage rejects)
TagsAnswers == {"none", "some", "fail"}

PanelCost == 8

\* controlPanel.remove() and controlPanelBridge.remove(), as
\* showControlPanelNow, the hide timer, the save timer and the click listener
\* do them
RemovePanel(d, panel, bridge) ==
  With(IF panel # NULL THEN RemoveNode(d, panel) ELSE d, LAMBDA d1 :
  IF bridge # NULL THEN RemoveNode(d1, bridge) ELSE d1)

\* the tags section of the panel, or the add-tag form when there are no tags
PanelBody(d, panel, tags) ==
  IF tags = "some"
  THEN With(Create(d, Element("div", {"wt-panel-tags"}, NoAttrs)), LAMBDA tagsSection :
       With(CreateWithText(tagsSection.dom, "span", {"wt-tag-name"}, NoAttrs, NameFoo),
            LAMBDA tagName :
       With(AppendChild(tagName.dom, tagsSection.id, tagName.id), LAMBDA d1 :
       AppendChild(d1, panel, tagsSection.id))))
  ELSE With(Create(d, Element("div", {"wt-panel-add-tag"},
                              [NoAttrs EXCEPT !.data_address = << >>])),
            LAMBDA addTagSection :
       AppendChild(addTagSection.dom, panel, addTagSection.id))

\* showControlPanelNow from "Create panel" on: the new bridge and the new
\* panel are appended to the body
BuildPanel(d, address, tags) ==
  With(Create(d, Element("div", {"wt-control-panel"}, NoAttrs)), LAMBDA panel :
  With(Create(panel.dom, Element("div", {"wt-control-panel-bridge"}, NoAttrs)),
       LAMBDA bridge :
  With(AppendChild(bridge.dom, Body, bridge.id), LAMBDA d3 :
  With(Create(d3, Element("div", {"wt-panel-header"}, NoAttrs)), LAMBDA header :
  With(CreateWithText(header.dom, "span", {"wt-panel-address"},
                      [NoAttrs EXCEPT !.title = address],
                      truncateAddress(address, 10, 8)), LAMBDA addressText :
  With(AppendChild(addressText.dom, header.id, addressText.id), LAMBDA d4 :
  With(AppendChild(d4, panel.id, header.id), LAMBDA d5 :
  With(PanelBody(d5, panel.id, tags), LAMBDA d6 :
  [dom |-> AppendChild(d6, Body, panel.id),
   controlPanel |-> panel.id,
   controlPanelBridge |-> bridge.id]))))))))

\* a showControlPanelNow that leaves the old panel and bridge in the document
RenderPanelKeepsOld(d, oldPanel, oldBridge, address, tags) ==
  BuildPanel(d, address, tags)

\* showControlPanelNow after its await: the old panel and bridge leave the
\* document, the new ones are built
RenderPanel(d, oldPanel, oldBridge, address, tags) ==
  With(RemovePanel(d, oldPanel, oldBridge), LAMBDA d1 : BuildPanel(d1, address, tags))

PanelIds(d, panel, bridge) ==
  (IF panel # NULL THEN SubtreeIds(d, panel) ELSE {})
  \cup (IF bridge # NULL THEN {bridge} ELSE {})

\* the addresses of the address elements of the document
WrapperAddresses(d) ==
  {d[n].attrs.data_address : n \in {m \in NodeIds : "wt-address-wrapper" \in d[m].cls}}

\* scanning specification: a panel is rendered for some address element (the
\* hover that led to it is not part of this specification)
PanelShown(address, tags) ==
  /\ pc = "done"
  /\ address \in WrapperAddresses(dom)
  /\ tags \in {"none", "some"}
  /\ Cardinality(FreeIds(dom)) >= PanelCost
  /\ \E p \in {RenderPanel(dom, controlPanel, controlPanelBridge, address, tags)} :
        /\ dom' = p.dom
        /\ controlPanel' = p.controlPanel
        /\ controlPanelBridge' = p.controlPanelBridge
  /\ currentPanelAddress' = address
  /\ IF observing
     THEN /\ Cardinality(ClearTimeout(timers, "scan")) < MaxTimers
          /\ timers' = ObserverTimers(timers)
          /\ scanDebounce' = Live
     ELSE UNCHANGED <<timers, scanDebounce>>
  /\ UNCHANGED <<origDom, cacheVars, initVars, showTimeout, hideTimeout,
                 pendingShowAddress, inflight, hover, watch, boundVars>>
  /\ UNCHANGED <<arkhamVars, sideVars>>

\* scanning specification: the rendered panel is closed
PanelHidden ==
  /\ controlPanel # NULL
  /\ dom' = RemovePanel(dom, controlPanel, controlPanelBridge)
  /\ controlPanel' = NULL
  /\ controlPanelBridge' = NULL
  /\ currentPanelAddress' = NoAddr
  /\ UNCHANGED <<origDom, cacheVars, initVars, timers, showTimeout, hideTimeout,
                 scanDebounce, pendingShowAddress, inflight, hover, watch, boundVars>>
  /\ UNCHANGED <<arkhamVars, sideVars>>

NextScan ==
  \/ \E response \in TagAnswers : InitTagsAnswer(response)
  \/ InitFails
  \/ \E isEnabled \in BOOLEAN : InitSettingsAnswer(isEnabled)
  \/ \E parent \in NodeIds, t \in InsertTexts : HostInsert(parent, t)
  \/ \E t \in timers : ScanTimerFires(t)
  \/ TagsUpdated
  \/ \E r \in inflight, response \in TagAnswers : ReloadAnswer(r, response)
  \/ \E address \in {AddrA, AddrB} : PanelShown(address, "none")
  \/ PanelHidden

SpecScan == InitScan /\ [][NextScan]_vars

\* initialization alone, on the pages with one text
NextText ==
  \/ \E response \in TagAnswers : InitTagsAnswer(response)
  \/ InitFails
  \/ \E isEnabled \in BOOLEAN : InitSettingsAnswer(isEnabled)

SpecText == InitText /\ [][NextText]_vars

\* ------------------------------------------- pages with hint attributes
MixedB == <<"0", "x", "B">> \o Rep("b", AddrHexLen - 1)     \* checksum casing

\* the texts of the hinted element: a bare short form, a form too short for
\* the attribute path, truncated forms of one or two addresses, a short form
\* in parentheses, and a text without 0x
HintTexts ==
  { ZeroX \o Rep("a", 4),
    ZeroX \o Rep("a", 3),
    TruncB,
    TruncA \o <<" ">> \o TruncA,
    TruncB \o <<" ">> \o TruncA,
    <<"(">> \o ZeroX \o Rep("a", 4) \o <<")">>,
    <<"n", "o">> }

\* the attributes of the element that holds the text
NearHints ==
  { NoAttrs,
    [NoAttrs EXCEPT !.title = MixedB],
    [NoAttrs EXCEPT !.data_hint = AddrB],
    [NoAttrs EXCEPT !.href = <<"/", "a", "/">> \o AddrB],
    [NoAttrs EXCEPT !.href = <<"/", "t", "x", "/">> \o TxHash] }

\* the attributes of its parent
FarHints == { NoAttrs, [NoAttrs EXCEPT !.title = MixedA] }

\* a second text node of the same element, or none
SiblingTexts == { << >>, TruncA }

\* body > div (far) > span or a (near) > text [, second text]
HintPage(t, near, far, sibling) ==
  MkPage(<< El(NULL, "body", {}, NoAttrs, <<2>>),
            El(Body, "div", {}, far, <<3>>),
            El(2, IF near.href # << >> THEN "a" ELSE "span", {}, near,
               IF sibling = << >> THEN <<4>> ELSE <<4, 5>>),
            Tx(3, t) >>
         \o (IF sibling = << >> THEN << >> ELSE << Tx(3, sibling) >>))

HintPages ==
  {HintPage(t, near, far, sibling) :
     t \in HintTexts, near \in NearHints, far \in FarHints, sibling \in SiblingTexts}

InitHint ==
  /\ dom \in HintPages
  /\ origDom = dom
  /\ tagCache = EmptyCache
  /\ knownAddresses = << >>
  /\ enabled = TRUE
  /\ pc = "tags"
  /\ observing = FALSE
  /\ timers = {}
  /\ showTimeout = NULL /\ hideTimeout = NULL /\ scanDebounce = NULL
  /\ controlPanel = NULL /\ controlPanelBridge = NULL
  /\ currentPanelAddress = NoAddr /\ pendingShowAddress = NoAddr
  /\ inflight = {}
  /\ hover = << >>
  /\ watch = [phase |-> "none", a |-> NoAddr, b |-> NoAddr, kept |-> FALSE]
  /\ inserts = 0 /\ reloads = 0
  /\ ArkhamIdle
  /\ SideIdle

\* initialization alone, on the pages with hint attributes
SpecHint == InitHint /\ [][NextText]_vars

\* ------------------------------------------------------ hovering: actions
\* the elements with the mouseenter/mouseleave listeners of showControlPanel:
\* the address elements and, on intel.arkm.com, the address links that
\* handleArkhamAddresses has processed
IsArkhamLink(d, n) ==
  /\ d[n].kind = "el"
  /\ "wt-arkham-processed" \in d[n].cls
  /\ FirstFullAddress(d[n].attrs.href) # << >>

IsWrapper(d, n) == d[n].kind = "el" /\ "wt-address-wrapper" \in d[n].cls

\* the address a trigger passes to showControlPanel
TriggerAddress(d, n) ==
  IF IsWrapper(d, n) THEN d[n].attrs.data_address
  ELSE normalizeAddress(FirstFullAddress(d[n].attrs.href))

IsListener(d, n) ==
  \/ IsWrapper(d, n)
  \/ IsArkhamLink(d, n)
  \/ d[n].kind = "el" /\ d[n].cls \cap {"wt-control-panel", "wt-control-panel-bridge"} # {}

RECURSIVE ListenerAbove(_, _)
ListenerAbove(d, n) ==
  LET p == d[n].parent
  IN IF p = NULL THEN NULL
     ELSE IF IsListener(d, p) THEN p
          ELSE ListenerAbove(d, p)

InHover(n) == \E i \in 1..Len(hover) : hover[i] = n

\* the pointer can move into n: n is not under the pointer yet, and the
\* innermost element with listeners under the pointer is the one around n
CanEnter(n) ==
  /\ IsListener(dom, n)
  /\ ~InHover(n)
  /\ LET a == ListenerAbove(dom, n)
     IN IF a = NULL THEN hover = << >>
        ELSE hover # << >> /\ hover[Len(hover)] = a

Idle ==
  /\ controlPanel = NULL
  /\ \A t \in timers : t.kind = "scan"
  /\ \A r \in inflight : r.type = "GET_ALL_TAGS_DATA"

\* The history of the pointer:
\*   phase  "first": a trigger of address a was hovered when the session was
\*          Idle, and no trigger of another address since;
\*          "left": after "first", the pointer left every trigger while the
\*          show timer of that hover was pending;
\*          "second": after that, a trigger of address b # a was hovered
\*          while the show timer of the first hover was pending;
\*   kept   the pointer entered the panel or the bridge while a hide timer was
\*          pending and has been inside since.
Watch(phase, a, b) ==
  [phase |-> phase, a |-> a, b |-> b, kept |-> FALSE]

NoWatch == Watch("none", NoAddr, NoAddr)

\* a showControlPanel that lets a pending show run to its end: a hover that
\* comes while the show timer of an earlier hover is pending starts nothing
MouseEnterTriggerKeepsPending(n) ==
  /\ IsWrapper(dom, n) \/ IsArkhamLink(dom, n)
  /\ CanEnter(n)
  /\ hover' = Append(hover, n)
  /\ LET address == TriggerAddress(dom, n)
     IN IF currentPanelAddress = address /\ controlPanel # NULL
        THEN /\ timers' = ClearTimeout(timers, "hide")
             /\ hideTimeout' = NULL
             /\ UNCHANGED <<showTimeout, pendingShowAddress, watch>>
        ELSE IF HeldTimers(timers, "show") # {}
             THEN /\ timers' = ClearTimeout(timers, "hide")
                  /\ hideTimeout' = NULL
                  /\ watch' =
                       IF watch.phase \in {"first", "left"} /\ address # watch.a
                       THEN Watch("second", watch.a, address)
                       ELSE watch
                  /\ UNCHANGED <<showTimeout, pendingShowAddress>>
             ELSE LET cleared == ClearTimeout(timers, "hide")
                  IN /\ Cardinality(cleared) < MaxTimers
                     /\ timers' = SetTimeout(cleared, "show", address)
                     /\ hideTimeout' = NULL
                     /\ showTimeout' = Live
                     /\ pendingShowAddress' = address
                     /\ watch' = IF Idle THEN Watch("first", address, NoAddr)
                                 ELSE NoWatch
  /\ UNCHANGED <<dom, origDom, cacheVars, initVars, scanDebounce, panelVars, inflight,
                 boundVars>>
  /\ UNCHANGED <<arkhamVars, sideVars>>

\* mouseenter on a trigger: showControlPanel(event, address)
MouseEnterTrigger(n) ==
  /\ IsWrapper(dom, n) \/ IsArkhamLink(dom, n)
  /\ CanEnter(n)
  /\ hover' = Append(hover, n)
  /\ LET address == TriggerAddress(dom, n)
     IN IF currentPanelAddress = address /\ controlPanel # NULL
        THEN /\ timers' = ClearTimeout(timers, "hide")
             /\ hideTimeout' = NULL
             /\ UNCHANGED <<showTimeout, pendingShowAddress, watch>>
        ELSE LET cleared == ClearTimeout(ClearTimeout(timers, "hide"), "show")
             IN /\ Cardinality(cleared) < MaxTimers
                /\ timers' = SetTimeout(cleared, "show", address)
                /\ hideTimeout' = NULL
                /\ showTimeout' = Live
                /\ pendingShowAddress' = address
                /\ watch' =
                     IF Idle THEN Watch("first", address, NoAddr)
                     ELSE IF /\ watch.phase \in {"first", "left"}
                             /\ HeldTimers(timers, "show") # {}
                          THEN IF address = watch.a THEN Watch("first", address, NoAddr)
                               ELSE Watch("second", watch.a, address)
                          ELSE NoWatch
  /\ UNCHANGED <<dom, origDom, cacheVars, initVars, scanDebounce, panelVars, inflight,
                 boundVars>>
  /\ UNCHANGED <<arkhamVars, sideVars>>

\* mouseenter on the panel or on the bridge
MouseEnterPanel(n) ==
  /\ n \in {controlPanel, controlPanelBridge}
  /\ CanEnter(n)
  /\ hover' = Append(hover, n)
  /\ timers' = ClearTimeout(timers, "hide")
  /\ hideTimeout' = NULL
  /\ watch' = [watch EXCEPT !.kept = HeldTimers(timers, "hide") # {}]
  /\ UNCHANGED <<dom, origDom, cacheVars, initVars, showTimeout, scanDebounce, panelVars,
                 pendingShowAddress, inflight, boundVars>>
  /\ UNCHANGED <<arkhamVars, sideVars>>

\* mouseleave on a trigger, the panel or the bridge: hideControlPanelDelayed
MouseLeave ==
  /\ hover # << >>
  /\ hover' = SubSeq(hover, 1, Len(hover) - 1)
  /\ Cardinality(timers) < MaxTimers
  /\ timers' = SetTimeout(timers, "hide", NoAddr)
  /\ hideTimeout' = Live
  /\ watch' = [watch EXCEPT
                 !.kept = FALSE,
                 !.phase = IF /\ @ = "first"
                              /\ Len(hover) = 1
                              /\ HeldTimers(timers, "show") # {}
                           THEN "left" ELSE @]
  /\ UNCHANGED <<dom, origDom, cacheVars, initVars, showTimeout, scanDebounce, panelVars,
                 pendingShowAddress, inflight, boundVars>>
  /\ UNCHANGED <<arkhamVars, sideVars>>

\* the 300 ms timer of showControlPanel fires; showControlPanelNow sends
\* GET_TAGS and waits
ShowTimerFires(t) ==
  /\ CanFire(timers, t) /\ t.kind = "show"
  /\ timers' = timers \ {t}
  /\ showTimeout' = AfterFire(showTimeout, t)
  /\ IF pendingShowAddress # t.address
     THEN UNCHANGED inflight
     ELSE /\ Cardinality(inflight) < MaxInflight
          /\ inflight' = SendMessage(inflight, "GET_TAGS", t.address)
  /\ UNCHANGED <<dom, origDom, cacheVars, initVars, hideTimeout, scanDebounce,
                 panelVars, pendingShowAddress, hover, watch, boundVars>>
  /\ UNCHANGED <<arkhamVars, sideVars>>

\* the answer to GET_TAGS arrives: the rest of showControlPanelNow
ShowAnswer(r, tags) ==
  /\ CanAnswer(inflight, r) /\ r.type = "GET_TAGS"
  /\ inflight' = inflight \ {r}
  /\ IF tags = "fail"
     THEN UNCHANGED <<dom, panelVars, timers, scanDebounce, hover, watch>>
     ELSE /\ Cardinality(FreeIds(dom)) >= PanelCost
          /\ \E p \in {RenderPanel(dom, controlPanel, controlPanelBridge, r.address, tags)},
                gone \in {PanelIds(dom, controlPanel, controlPanelBridge)} :
                /\ dom' = p.dom
                /\ controlPanel' = p.controlPanel
                /\ controlPanelBridge' = p.controlPanelBridge
                /\ hover' = SelectSeq(hover, LAMBDA n : n \notin gone)
          /\ watch' = [watch EXCEPT !.kept = FALSE]
          /\ currentPanelAddress' = r.address
          /\ IF observing
             THEN /\ Cardinality(ClearTimeout(timers, "scan")) < MaxTimers
                  /\ timers' = ObserverTimers(timers)
                  /\ scanDebounce' = Live
             ELSE UNCHANGED <<timers, scanDebounce>>
  /\ UNCHANGED <<origDom, cacheVars, initVars, showTimeout, hideTimeout,
                 pendingShowAddress, boundVars>>
  /\ UNCHANGED <<arkhamVars, sideVars>>

\* a hide callback that leaves currentPanelAddress as it is
HideTimerFiresKeepsAddress(t) ==
  /\ CanFire(timers, t) /\ t.kind = "hide"
  /\ timers' = timers \ {t}
  /\ hideTimeout' = AfterFire(hideTimeout, t)
  /\ dom' = RemovePanel(dom, controlPanel, controlPanelBridge)
  /\ hover' = SelectSeq(hover, LAMBDA n :
                 n \notin PanelIds(dom, controlPanel, controlPanelBridge))
  /\ controlPanel' = NULL
  /\ controlPanelBridge' = NULL
  /\ watch' = [watch EXCEPT !.kept = FALSE]
  /\ UNCHANGED <<origDom, cacheVars, initVars, showTimeout, scanDebounce,
                 currentPanelAddress, pendingShowAddress, inflight, boundVars>>
  /\ UNCHANGED <<arkhamVars, sideVars>>

\* the 500 ms timer of hideControlPanelDelayed fires
HideTimerFires(t) ==
  /\ CanFire(timers, t) /\ t.kind = "hide"
  /\ timers' = timers \ {t}
  /\ hideTimeout' = AfterFire(hideTimeout, t)
  /\ dom' = RemovePanel(dom, controlPanel, controlPanelBridge)
  /\ hover' = SelectSeq(hover, LAMBDA n :
                 n \notin PanelIds(dom, controlPanel, controlPanelBridge))
  /\ controlPanel' = NULL
  /\ controlPanelBridge' = NULL
  /\ currentPanelAddress' = NoAddr
  /\ watch' = [watch EXCEPT !.kept = FALSE]
  /\ UNCHANGED <<origDom, cacheVars, initVars, showTimeout, scanDebounce,
                 pendingShowAddress, inflight, boundVars>>
  /\ UNCHANGED <<arkhamVars, sideVars>>

RECURSIVE ClosestClass(_, _, _)
ClosestClass(d, e, c) ==
  IF e = NULL THEN NULL
  ELSE IF c \in d[e].cls THEN e
       ELSE ClosestClass(d, d[e].parent, c)

\* the element a click at the pointer's position has as its target
ClickTarget == IF hover = << >> THEN Body ELSE hover[Len(hover)]

\* the click listener of the document
DocumentClick ==
  /\ IF /\ controlPanel # NULL
        /\ ~Contains(dom, controlPanel, ClickTarget)
        /\ ClosestClass(dom, ClickTarget, "wt-arkham-indicator") = NULL
        /\ ClosestClass(dom, ClickTarget, "wt-control-panel-bridge") = NULL
     THEN /\ dom' = RemovePanel(dom, controlPanel, controlPanelBridge)
          /\ controlPanel' = NULL
          /\ controlPanelBridge' = NULL
          /\ currentPanelAddress' = NoAddr
     ELSE UNCHANGED <<dom, panelVars>>
  /\ UNCHANGED <<origDom, cacheVars, initVars, timers, showTimeout, hideTimeout,
                 scanDebounce, pendingShowAddress, inflight, hover, watch, boundVars>>
  /\ UNCHANGED <<arkhamVars, sideVars>>

\* the address the panel was rendered for (the title of its address text)
PanelAddress(d, panel) == d[d[d[panel].kids[1]].kids[1]].attrs.title

HasAddTagForm(d, panel) ==
  \E i \in 1..Len(d[panel].kids) : "wt-panel-add-tag" \in d[d[panel].kids[i]].cls

\* saveTag of the add-tag form (button click or Enter in the input) with a
\* name: ADD_EXTENSION_TAG is sent
SaveTag ==
  /\ controlPanel # NULL
  /\ HasAddTagForm(dom, controlPanel)
  /\ Cardinality(inflight) < MaxInflight
  /\ inflight' = SendMessage(inflight, "ADD_EXTENSION_TAG", PanelAddress(dom, controlPanel))
  /\ UNCHANGED <<dom, origDom, cacheVars, initVars, timers, showTimeout, hideTimeout,
                 scanDebounce, panelVars, pendingShowAddress, hover, watch, boundVars>>
  /\ UNCHANGED <<arkhamVars, sideVars>>

\* the await of saveTag ends: with an answer (the 500 ms close timer is set;
\* its callback does not use the address) or with a rejection (the catch
\* branch changes the button only)
SaveAnswer(r, resolved) ==
  /\ CanAnswer(inflight, r) /\ r.type = "ADD_EXTENSION_TAG"
  /\ inflight' = inflight \ {r}
  /\ IF resolved
     THEN /\ Cardinality(timers) < MaxTimers
          /\ timers' = SetTimeoutUnheld(timers, "save", NoAddr)
     ELSE UNCHANGED timers
  /\ UNCHANGED <<dom, origDom, cacheVars, initVars, showTimeout, hideTimeout, scanDebounce,
                 panelVars, pendingShowAddress, hover, watch, boundVars>>
  /\ UNCHANGED <<arkhamVars, sideVars>>

\* the 500 ms timer of saveTag fires
SaveTimerFires(t) ==
  /\ CanFire(timers, t) /\ t.kind = "save"
  /\ timers' = timers \ {t}
  /\ dom' = RemovePanel(dom, controlPanel, controlPanelBridge)
  /\ hover' = SelectSeq(hover, LAMBDA n :
                 n \notin PanelIds(dom, controlPanel, controlPanelBridge))
  /\ controlPanel' = NULL
  /\ controlPanelBridge' = NULL
  /\ watch' = [watch EXCEPT !.kept = FALSE]
  /\ UNCHANGED <<origDom, cacheVars, initVars, showTimeout, hideTimeout, scanDebounce,
                 currentPanelAddress, pendingShowAddress, inflight, boundVars>>
  /\ UNCHANGED <<arkhamVars, sideVars>>

\* an Arkham page: a paragraph with an address and a processed address link
\* whose text is an address
PageHover ==
  MkPage(<< El(NULL, "body", {}, NoAttrs, <<2, 4>>),
            El(Body, "p", {}, NoAttrs, <<3>>),
            Tx(2, AddrB),
            El(Body, "a", {"wt-arkham-processed"},
               [NoAttrs EXCEPT !.href = <<"/", "a", "/">> \o AddrA], <<5>>),
            Tx(4, AddrA) >>)

\* the state once initialize() has finished on that page with an empty store
Init ==
  /\ origDom = PageHover
  /\ dom = scanPage(PageHover, TRUE, EmptyCache, << >>)
  /\ tagCache = EmptyCache
  /\ knownAddresses = << >>
  /\ enabled = TRUE
  /\ pc = "done"
  /\ observing = TRUE
  /\ timers = {}
  /\ showTimeout = NULL /\ hideTimeout = NULL /\ scanDebounce = NULL
  /\ controlPanel = NULL /\ controlPanelBridge = NULL
  /\ currentPanelAddress = NoAddr /\ pendingShowAddress = NoAddr
  /\ inflight = {}
  /\ hover = << >>
  /\ watch = NoWatch
  /\ inserts = 0 /\ reloads = 0
  /\ ArkhamIdle
  /\ SideIdle

Next ==
  \/ \E n \in NodeIds : MouseEnterTrigger(n)
  \/ \E n \in NodeIds : MouseEnterPanel(n)
  \/ MouseLeave
  \/ \E t \in timers : ShowTimerFires(t)
  \/ \E r \in inflight, tags \in TagsAnswers : ShowAnswer(r, tags)
  \/ \E t \in timers : HideTimerFires(t)
  \/ DocumentClick
  \/ SaveTag
  \/ \E r \in inflight, resolved \in BOOLEAN : SaveAnswer(r, resolved)
  \/ \E t \in timers : SaveTimerFires(t)
  \/ \E t \in timers : ScanTimerFires(t)

Spec == Init /\ [][Next]_vars

\* --------------------------------------------- the import: specification
NextImport ==
  \/ ImportClick
  \/ \E ok \in BOOLEAN, entitiesData \in EntityInputs : EntitiesAnswer(ok, entitiesData)
  \/ \E ok \in BOOLEAN, labelsData \in LabelInputs : LabelsAnswer(ok, labelsData)
  \/ FetchFails

SpecImport == Init /\ [][NextImport]_vars

\* The same for the scanning specification: the debounce timer fires, and
\* the requests of initialize() and of the TAGS_UPDATED listener settle.
ScanFairness ==
  /\ WF_vars(\E t \in timers : ScanTimerFires(t))
  /\ WF_vars(\E r \in inflight, response \in TagAnswers : ReloadAnswer(r, response))
  /\ WF_vars(\/ \E response \in TagAnswers : InitTagsAnswer(response)
             \/ \E isEnabled \in BOOLEAN : InitSettingsAnswer(isEnabled)
             \/ InitFails)

SpecScanLive == InitScan /\ [][NextScan]_vars /\ ScanFairness

\* The event loop runs the callback of every pending timer, and the service
\* worker settles every sendMessage (with an answer or with a rejection).
HoverFairness ==
  /\ WF_vars(\E t \in timers : ShowTimerFires(t))
  /\ WF_vars(\E t \in timers : HideTimerFires(t))
  /\ WF_vars(\E t \in timers : SaveTimerFires(t))
  /\ WF_vars(\E t \in timers : ScanTimerFires(t))
  /\ WF_vars(\E r \in inflight, tags \in TagsAnswers : ShowAnswer(r, tags))
  /\ WF_vars(\E r \in inflight, resolved \in BOOLEAN : SaveAnswer(r, resolved))

SpecLive == Init /\ [][Next]_vars /\ HoverFairness

\* ------------------------------------- truncating and matching (address.ts)
\* an address whose digits differ from place to place
AddrDigits ==
  ZeroX \o <<"1", "2", "3", "4", "5", "6", "7", "8", "9", "A">> \o Rep("c", 20)
        \o <<"F", "e", "d", "c", "b", "a", "9", "8", "7", "6">>

\* the strings truncateAddress is called with: addresses, and strings no
\* longer than what is kept of them
CallAddresses ==
  { AddrA, MixedB, AddrDigits, ZeroX \o Rep("a", 6), ZeroX \o Rep("b", 16) }

\* the values of startChars and endChars
CharCounts == 2..9

\* truncateAddress(address, startChars, endChars) is called
CallTruncate(address, startChars, endChars) ==
  /\ call.pc = "idle"
  /\ call' = [pc |-> "truncated", address |-> address, startChars |-> startChars,
              endChars |-> endChars,
              truncated |-> truncateAddress(address, startChars, endChars),
              matched |-> << >>]
  /\ UNCHANGED <<otherVars, arkhamVars, background, snowscan>>

\* matchTruncatedAddress is called with the result and the address as the
\* only known address
CallMatch ==
  /\ call.pc = "truncated"
  /\ call' = [call EXCEPT !.pc = "matched",
                          !.matched = matchTruncatedAddress(call.truncated,
                                                            <<call.address>>)]
  /\ UNCHANGED <<otherVars, arkhamVars, background, snowscan>>

NextCall ==
  \/ \E address \in CallAddresses, startChars \in CharCounts, endChars \in CharCounts :
        CallTruncate(address, startChars, endChars)
  \/ CallMatch

SpecCall == Init /\ [][NextCall]_vars

\* ------------------------------------ the SnowScan scrape (content/index.ts)
\* the statements after the while loop: throw when nothing was scraped
SnowFinish(s) ==
  [s EXCEPT !.pc = IF s.tags = 0 THEN "thrown" ELSE "returned"]

\* the click on the import button: fetchSnowscanNotes asks for page 1
SnowStart ==
  /\ snowscan.pc = "idle"
  /\ snowscan' = [pc |-> "fetch", currentPage |-> 1, tags |-> 0, fetched |-> 1]
  /\ UNCHANGED <<otherVars, arkhamVars, background, call>>

\* the fetch of the current page returns: a response that is not ok ends the
\* loop, otherwise its text is awaited
SnowFetchAnswer(ok) ==
  /\ snowscan.pc = "fetch"
  /\ snowscan' = IF ok THEN [snowscan EXCEPT !.pc = "text"] ELSE SnowFinish(snowscan)
  /\ UNCHANGED <<otherVars, arkhamVars, background, call>>

\* a delay that asks for one page beyond the limit
SnowDelayFiresOneMore ==
  /\ snowscan.pc = "delay"
  /\ snowscan' = IF snowscan.currentPage > PageLimit + 1
                 THEN SnowFinish(snowscan)
                 ELSE [snowscan EXCEPT !.pc = "fetch", !.fetched = @ + 1]
  /\ UNCHANGED <<otherVars, arkhamVars, background, call>>

\* the delay of 500 ms is over: the safety limit ends the loop, or the next
\* page is asked for
SnowDelayFires ==
  /\ snowscan.pc = "delay"
  /\ snowscan' = IF snowscan.currentPage > PageLimit
                 THEN SnowFinish(snowscan)
                 ELSE [snowscan EXCEPT !.pc = "fetch", !.fetched = @ + 1]
  /\ UNCHANGED <<otherVars, arkhamVars, background, call>>

\* the text of the page arrives and is parsed: rows is the number of table
\* rows, pageCount the number of rows that gave a tag, foundNextPage whether
\* a pagination link leads on
SnowTextAnswer(rows, pageCount, foundNextPage) ==
  /\ snowscan.pc = "text"
  /\ pageCount <= rows
  /\ snowscan' =
       IF rows = 0 THEN SnowFinish(snowscan)
       ELSE IF foundNextPage /\ pageCount > 0
            THEN [snowscan EXCEPT !.tags = @ + pageCount, !.currentPage = @ + 1,
                                  !.pc = "delay"]
            ELSE SnowFinish([snowscan EXCEPT !.tags = @ + pageCount])
  /\ UNCHANGED <<otherVars, arkhamVars, background, call>>

\* fetch or response.text() rejects: the catch block throws the error again
SnowFetchRejects ==
  /\ snowscan.pc \in {"fetch", "text"}
  /\ snowscan' = [snowscan EXCEPT !.pc = "rejected"]
  /\ UNCHANGED <<otherVars, arkhamVars, background, call>>

NextSnow ==
  \/ SnowStart
  \/ \E ok \in BOOLEAN : SnowFetchAnswer(ok)
  \/ \E rows \in 0..MaxRows, pageCount \in 0..MaxRows, foundNextPage \in BOOLEAN :
        SnowTextAnswer(rows, pageCount, foundNextPage)
  \/ SnowDelayFires
  \/ SnowFetchRejects

SpecSnow == Init /\ [][NextSnow]_vars

\* every fetch and every response.text() settles, and the timer fires
SnowFairness ==
  /\ WF_vars((\E ok \in BOOLEAN : SnowFetchAnswer(ok)) \/ SnowFetchRejects)
  /\ WF_vars((\E rows \in 0..MaxRows, pageCount \in 0..MaxRows, foundNextPage \in BOOLEAN :
                 SnowTextAnswer(rows, pageCount, foundNextPage)) \/ SnowFetchRejects)
  /\ WF_vars(SnowDelayFires)

SpecSnowLive == Init /\ [][NextSnow]_vars /\ SnowFairness

\* ------------------------------- the service worker (utils/zipParser.ts)
\* the message types sent to the service worker; ADD_EXTENSION_TAG is sent by
\* the panel's form and is no case of the switch
MessageTypes ==
  { "GET_TAGS", "IMPORT_CSV", "IMPORT_ARKHAM_TAGS", "IMPORT_SNOWSCAN_TAGS",
    "IMPORT_TAGS", "EXPORT_ALL_SOURCES", "UPDATE_SOURCE", "REMOVE_SOURCE",
    "ADD_EXTENSION_TAG" }

\* the default branch of the switch
IsCase(type) == type # "ADD_EXTENSION_TAG"

\* the cases that call startKeepAlive and stopKeepAlive
KeepsAlive(type) ==
  type \in {"IMPORT_CSV", "IMPORT_TAGS", "EXPORT_ALL_SOURCES", "UPDATE_SOURCE",
            "REMOVE_SOURCE"}

\* the cases that call parseCSV before their first await
ParsesCsv(type) == type \in {"IMPORT_CSV", "UPDATE_SOURCE"}

\* the cases that call notifyAllTabs
Notifies(type) ==
  type \in {"IMPORT_CSV", "IMPORT_ARKHAM_TAGS", "IMPORT_SNOWSCAN_TAGS", "IMPORT_TAGS",
            "UPDATE_SOURCE", "REMOVE_SOURCE"}

StoreCall(op, source) == [op |-> op, source |-> source]

\* the calls a case awaits, in order: importTags, clearTagsBySource, getStats,
\* getTagsBySource.  The file messages name the source "file"; the tags of
\* IMPORT_TAGS come from two sources
Awaits(type) ==
  CASE type = "IMPORT_CSV" -> << StoreCall("import", "file") >>
    [] type = "IMPORT_ARKHAM_TAGS" -> << StoreCall("import", "arkham") >>
    [] type = "IMPORT_SNOWSCAN_TAGS" -> << StoreCall("import", "snowscan") >>
    [] type = "IMPORT_TAGS" -> << StoreCall("import", "file"), StoreCall("import", "arkham") >>
    [] type = "EXPORT_ALL_SOURCES" -> << StoreCall("stats", "") >>
    [] type = "UPDATE_SOURCE" -> << StoreCall("clear", "file"), StoreCall("import", "file") >>
    [] type = "REMOVE_SOURCE" -> << StoreCall("stats", ""), StoreCall("clear", "file") >>
    [] OTHER -> << >>

\* the store after an awaited call has completed
StoreAfter(store, c) ==
  IF c.op = "import" THEN store \cup {c.source}
  ELSE IF c.op = "clear" THEN store \ {c.source}
  ELSE store

\* what is still awaited after the call c: EXPORT_ALL_SOURCES reads every
\* source of the statistics
AwaitsAfter(type, c, rest, store) ==
  IF type = "EXPORT_ALL_SOURCES" /\ c.op = "stats"
  THEN [i \in 1..Cardinality(store) |-> StoreCall("read", "")]
  ELSE rest

\* a start that sets a second interval when one is running
startKeepAliveAgain(bg) ==
  [bg EXCEPT !.keepAliveInterval = Live, !.intervals = @ + 1]

startKeepAlive(bg) ==
  IF bg.keepAliveInterval # NULL THEN bg
  ELSE [bg EXCEPT !.keepAliveInterval = Live, !.intervals = @ + 1]

stopKeepAlive(bg) ==
  IF bg.keepAliveInterval # NULL
  THEN [bg EXCEPT !.keepAliveInterval = NULL, !.intervals = @ - 1]
  ELSE bg

\* a notification that asks for no tabs
notifyAllTabsNever(bg) == bg

\* chrome.tabs.query is called; its callback runs later
notifyAllTabs(bg) == [bg EXCEPT !.tabQueries = @ + 1]

Handler(type, phase, steps) == [type |-> type, phase |-> phase, steps |-> steps]

\* the messages being handled and the responses under way are bags: two
\* messages of one type at the same await are two handlers
One(x) == SetToBag({x})

\* handleMessage ends for h, by return or by throw: the finally block of the
\* case runs, and the listener sends the response
Settle(bg, h, error) ==
  With(IF IsCase(h.type) /\ KeepsAlive(h.type) /\ h.phase = "run"
       THEN stopKeepAlive(bg) ELSE bg, LAMBDA b1 :
  [b1 EXCEPT !.handlers = @ (-) One(h),
             !.responses = @ (+) One([error |-> error])])

\* the case of h has awaited everything: it notifies the tabs if it is one of
\* the cases that do, and returns
Return(bg, h) ==
  Settle(IF Notifies(h.type) THEN notifyAllTabs(bg) ELSE bg, h, FALSE)

\* a message arrives: the listener calls handleMessage, which awaits
\* initDatabase
Receive(type) ==
  /\ BagCardinality(background.handlers) + BagCardinality(background.responses)
       < MaxHandlers
  /\ background' =
       [background EXCEPT !.handlers = @ (+) One(Handler(type, "init", << >>))]
  /\ UNCHANGED <<otherVars, arkhamVars, snowscan, call>>

\* initDatabase has resolved: the switch runs up to the first await of the
\* case, to its return, or to a throw (the default branch, or parseCSV)
DatabaseReady(h, csvOk) ==
  /\ BagIn(h, background.handlers) /\ h.phase = "init"
  /\ csvOk \/ ParsesCsv(h.type)
  /\ Notifies(h.type) => background.tabQueries < MaxQueries
  /\ background' =
       IF ~IsCase(h.type) THEN Settle(background, h, TRUE)
       ELSE With(IF KeepsAlive(h.type) THEN startKeepAlive(background) ELSE background,
                 LAMBDA b1 :
            With(Handler(h.type, "run", Awaits(h.type)), LAMBDA h1 :
            With([b1 EXCEPT !.handlers = (@ (-) One(h)) (+) One(h1)], LAMBDA b2 :
            IF ~csvOk THEN Settle(b2, h1, TRUE)
            ELSE IF h1.steps = << >> THEN Return(b2, h1)
            ELSE b2)))
  /\ UNCHANGED <<otherVars, arkhamVars, snowscan, call>>

\* initDatabase has rejected: handleMessage throws
DatabaseFails(h) ==
  /\ BagIn(h, background.handlers) /\ h.phase = "init"
  /\ background' = Settle(background, h, TRUE)
  /\ UNCHANGED <<otherVars, arkhamVars, snowscan, call>>

\* the call the case awaits has resolved: the store has changed, and the case
\* goes on to its next await or to its end
StepDone(h) ==
  /\ BagIn(h, background.handlers) /\ h.phase = "run"
  /\ Notifies(h.type) => background.tabQueries < MaxQueries
  /\ background' =
       With(StoreAfter(background.store, Head(h.steps)), LAMBDA store :
       With(Handler(h.type, "run",
                    AwaitsAfter(h.type, Head(h.steps), Tail(h.steps), store)),
            LAMBDA h1 :
       With([background EXCEPT !.store = store,
                               !.handlers = (@ (-) One(h)) (+) One(h1)], LAMBDA b1 :
       IF h1.steps = << >> THEN Return(b1, h1) ELSE b1)))
  /\ UNCHANGED <<otherVars, arkhamVars, snowscan, call>>

\* the call the case awaits has rejected: the store is as it was, the case
\* throws
StepFails(h) ==
  /\ BagIn(h, background.handlers) /\ h.phase = "run"
  /\ background' = Settle(background, h, TRUE)
  /\ UNCHANGED <<otherVars, arkhamVars, snowscan, call>>

\* the tabs the browser has
Tabs == {1, 2}

\* the callback of chrome.tabs.query runs: every tab is sent { type }
TabsQueried ==
  /\ background.tabQueries > 0
  /\ background' =
       [background EXCEPT
          !.tabQueries = @ - 1,
          !.sent = {[tab |-> t, message |-> [type |-> "TAGS_UPDATED"]] : t \in Tabs}]
  /\ UNCHANGED <<otherVars, arkhamVars, snowscan, call>>

\* the response reaches the sender of the message
ResponseDelivered(r) ==
  /\ BagIn(r, background.responses)
  /\ background' = [background EXCEPT !.responses = @ (-) One(r)]
  /\ UNCHANGED <<otherVars, arkhamVars, snowscan, call>>

NextBackground ==
  \/ \E type \in MessageTypes : Receive(type)
  \/ \E h \in BagToSet(background.handlers), csvOk \in BOOLEAN : DatabaseReady(h, csvOk)
  \/ \E h \in BagToSet(background.handlers) : DatabaseFails(h)
  \/ \E h \in BagToSet(background.handlers) : StepDone(h)
  \/ \E h \in BagToSet(background.handlers) : StepFails(h)
  \/ TabsQueried
  \/ \E r \in BagToSet(background.responses) : ResponseDelivered(r)

SpecBackground == Init /\ [][NextBackground]_vars

\* ------------------------------------------------ properties of the hover
\* the panels and the bridges in the document
Panels(d) == QuerySelectorAll(d, "wt-control-panel")
Bridges(d) == QuerySelectorAll(d, "wt-control-panel-bridge")

ShowTimers == {t \in timers : t.kind = "show"}
HideTimers == {t \in timers : t.kind = "hide"}
ShowRequests == {r \in inflight : r.type = "GET_TAGS"}

\* the panel in the document is the one panel of the session, for address a
OnePanelFor(a) ==
  /\ controlPanel # NULL /\ controlPanelBridge # NULL
  /\ Panels(dom) = <<controlPanel>>
  /\ Bridges(dom) = <<controlPanelBridge>>
  /\ PanelAddress(dom, controlPanel) = a
  /\ currentPanelAddress = a

\* C1: whatever hovers, leaves, timer firings, clicks, tag saves and answers
\* of the tag store came before, the document holds at most one hover panel
\* and at most one bridge.
C1_OnePanelOneBridge ==
  /\ Len(Panels(dom)) <= 1
  /\ Len(Bridges(dom)) <= 1

\* a panel is rendered while the answer for another address is on its way:
\* the next rendering finds a panel to replace
C1_Witness ==
  /\ Len(Panels(dom)) = 1 /\ Len(Bridges(dom)) = 1
  /\ \E r \in ShowRequests : r.address # currentPanelAddress

\* C2: once a trigger of address a was hovered from Idle and a trigger of
\* another address b before the show timer of a fired, no show timer, no
\* request and no panel is for a; the show timer of b, when it fires, asks
\* for the tags of b, and the rendering that follows leaves exactly one
\* panel in the document, for b.
C2_Superseded ==
  /\ [](watch.phase = "second" =>
          /\ \A t \in ShowTimers : t.address = watch.b /\ t.held
          /\ \A r \in ShowRequests : r.address = watch.b
          /\ Cardinality(ShowTimers) + Cardinality(ShowRequests) <= 1
          /\ controlPanel # NULL => OnePanelFor(watch.b))
  /\ [][watch.phase = "second" /\ ShowTimers # {} /\ ShowTimers' = {} =>
          ShowRequests' = {Request("GET_TAGS", watch.b, 1)}]_vars
  /\ [][watch.phase = "second" /\ ShowRequests # {} /\ ShowRequests' = {}
          /\ dom' # dom => OnePanelFor(watch.b)']_vars

\* the panel for b is rendered after the hover of a was superseded
C2_Witness ==
  /\ watch.phase = "second"
  /\ watch.a # watch.b
  /\ OnePanelFor(watch.b)

\* C3 as the specification states it: every hover timer can be cancelled by
\* its counter-transition (a variable holds its handle), at most one show
\* timer and at most one hide timer are pending, and a show timer that is
\* pending is for the address the session waits for.
C3_TimersCancelled ==
  /\ \A t \in ShowTimers \cup HideTimers : t.held
  /\ Cardinality(ShowTimers) <= 1
  /\ Cardinality(HideTimers) <= 1
  /\ controlPanel = NULL /\ ShowTimers # {} =>
       \A t \in ShowTimers : t.address = pendingShowAddress

\* C4 as the specification states it: when the pointer left the trigger
\* before the show timer fired and hovered no trigger since, no panel is
\* rendered.
C4_AbortToIdle == watch.phase = "left" => controlPanel = NULL

\* C5 as the specification states it: while the pointer is inside the panel
\* or the bridge that it entered with a hide pending, no hide timer is
\* pending and no step takes the panel away.
C5_PanelKept ==
  /\ [](watch.kept => HideTimers = {})
  /\ [][watch.kept => controlPanel' = controlPanel
                       /\ currentPanelAddress' = currentPanelAddress]_vars

\* C6 as the specification states it: a click outside the panel and the
\* bridge leaves the session Idle: no panel, no bridge, no address, and no
\* show timer or request for tags left that renders a panel later.
C6_ClickClosesSession ==
  [][DocumentClick =>
       /\ controlPanel' = NULL
       /\ controlPanelBridge' = NULL
       /\ Panels(dom') = << >>
       /\ currentPanelAddress' = NoAddr
       /\ ShowTimers' = {}
       /\ ShowRequests' = {}]_vars

\* ---------------------------------------------- properties of the scan
IsPanelPart(d, n) ==
  d[n].cls \cap {"wt-control-panel", "wt-control-panel-bridge"} # {}

\* the document as a tree of tags, classes, attributes and texts, without
\* the hover panel and its bridge
RECURSIVE Shape(_, _)
RECURSIVE ShapeOfKids(_, _, _)
Shape(d, n) ==
  [kind |-> d[n].kind, tag |-> d[n].tag, cls |-> d[n].cls, attrs |-> d[n].attrs,
   text |-> d[n].text, kids |-> ShapeOfKids(d, d[n].kids, 1)]
ShapeOfKids(d, kids, i) ==
  IF i > Len(kids) THEN << >>
  ELSE (IF IsPanelPart(d, kids[i]) THEN << >> ELSE <<Shape(d, kids[i])>>)
       \o ShapeOfKids(d, kids, i + 1)

\* the characters the page shows, in document order, without the hover panel
RECURSIVE PageText(_, _)
RECURSIVE TextOfKids(_, _, _)
PageText(d, n) ==
  IF d[n].kind = "text" THEN d[n].text ELSE TextOfKids(d, d[n].kids, 1)
TextOfKids(d, kids, i) ==
  IF i > Len(kids) THEN << >>
  ELSE (IF IsPanelPart(d, kids[i]) THEN << >> ELSE PageText(d, kids[i]))
       \o TextOfKids(d, kids, i + 1)

Wrappers(d) == {n \in NodeIds : IsWrapper(d, n)}

Scanned(d) == scanPage(d, enabled, tagCache, knownAddresses)

\* C7: a second scanPage on the document the first one left changes nothing:
\* no node, no class, no text.
C7_ScanIdempotent ==
  ScanFits(dom) /\ ScanFits(Scanned(dom)) => Scanned(Scanned(dom)) = Scanned(dom)

\* a scanned page with a tagged and an untagged address element, which a
\* further scan leaves as it is
C7_Witness ==
  /\ pc = "done" /\ enabled
  /\ \E n \in Wrappers(dom) : "wt-has-tag" \in dom[n].cls
  /\ \E n \in Wrappers(dom) : "wt-has-tag" \notin dom[n].cls
  /\ ScanFits(dom)
  /\ Scanned(dom) = dom

\* a step that takes an answer of the tag store: the TAGS_UPDATED reload
ReloadStep == \E r \in inflight : r \notin inflight'

\* C8: no address element lies inside another one, and a step other than a
\* TAGS_UPDATED reload leaves every address element where it is and as it is
\* (its parent, its attributes, its classes and all that is inside it).
C8_NoNestingNoRewrap ==
  /\ [](\A n \in Wrappers(dom) : \A m \in Wrappers(dom) :
          m # n => ~Contains(dom, m, n))
  /\ [][~ReloadStep =>
          \A n \in Wrappers(dom) : \A m \in SubtreeIds(dom, n) : dom'[m] = dom[m]]_vars

\* address elements, an insertion of the host page, a reload and a rendered
\* panel, with every rescan done
C8_Witness ==
  /\ Cardinality(Wrappers(dom)) >= 2
  /\ inserts >= 1 /\ reloads >= 1
  /\ controlPanel # NULL
  /\ timers = {} /\ inflight = {}

\* C9 as the specification states it: the document a TAGS_UPDATED reload
\* leaves is the document a scan of the original page with the new cache
\* gives.
C9_ReloadIsFreshScan ==
  [][(/\ \E r \in inflight, response \in TagAnswers :
           response.hasTags /\ ReloadAnswer(r, response)
      /\ ScanFits(origDom))
     => Shape(dom', Body) =
          Shape(scanPage(origDom, enabled, tagCache', knownAddresses'), Body)]_vars

\* C10 as the specification states it: while no address element shows a
\* tag, the page shows the characters of the host page.
C10_OriginalCharacters ==
  (\A n \in Wrappers(dom) : "wt-has-tag" \notin dom[n].cls) =>
    PageText(dom, Body) = PageText(origDom, Body)

\* ------------------------------------------------------------ the import
\* the records an address has received, in order
RecordsFor(x) == SelectSeq(received, LAMBDA r : normalizeAddress(r.address) = x)

ReceivedAddresses == {normalizeAddress(received[i].address) : i \in 1..Len(received)}

\* the last record of rs that carries an entity
LastEntity(rs) ==
  rs[CHOOSE i \in 1..Len(rs) :
       /\ rs[i].entity # Undefined
       /\ \A j \in (i + 1)..Len(rs) : rs[j].entity = Undefined].entity

\* C17: the map of fetchArkhamLabels holds exactly one tag for every address
\* that received a record, under its lowercase form; when the last record of
\* the address is a label without entity and an earlier record carried an
\* entity, the tag has the name of that label and the entity attached before.
C17_EntityKept ==
  \A x \in ReceivedAddresses :
    LET rs == RecordsFor(x)
        last == rs[Len(rs)]
    IN /\ Cardinality({i \in 1..Len(tagMap) : tagMap[i].key = x}) = 1
       /\ MapGet(tagMap, x).address = x
       /\ (last.entity = Undefined /\ (\E i \in 1..Len(rs) : rs[i].entity # Undefined))
            => /\ MapGet(tagMap, x).name = last.name
               /\ MapGet(tagMap, x).entity = LastEntity(rs)

\* fetchArkhamLabels has returned; the address was in the entity Acme, then
\* was labelled Foo, then Bar under its checksum casing: the tag is Bar, Acme
C17_Witness ==
  /\ arkhamPc = "returned"
  /\ RecordsFor(AddrA) =
       << [address |-> AddrA, name |-> NameAcme, entity |-> NameAcme],
          [address |-> AddrA, name |-> NameFoo, entity |-> Undefined],
          [address |-> MixedA, name |-> NameBar, entity |-> Undefined] >>
  /\ MapGet(tagMap, AddrA) = Tag(AddrA, NameBar, NameAcme, "arkham")

\* ------------------------------------------------------ the address forms
\* the texts of the text nodes of the host page and of the document
HostTexts ==
  {origDom[n].text : n \in {m \in NodeIds : origDom[m].kind = "text"}}
  \cup {dom[n].text : n \in {m \in NodeIds : dom[m].kind = "text"}}

\* 0x or 0X and 40 hex digits at the 1-based position i of T
IsOccurrence(T, i) ==
  /\ i >= 1 /\ i + 41 <= Len(T)
  /\ T[i] = "0" /\ T[i + 1] \in {"x", "X"}
  /\ \A k \in (i + 2)..(i + 41) : T[k] \in HexChars

Disjoint(S) == \A i, j \in S : i # j => (i - j >= 42 \/ j - i >= 42)

\* the largest number of pairwise disjoint occurrences in T
MaxDisjoint(T) ==
  LET occ == {i \in 1..Len(T) : IsOccurrence(T, i)}
      sizes == {Cardinality(S) : S \in {R \in SUBSET occ : Disjoint(R)}}
  IN CHOOSE k \in sizes : \A l \in sizes : l <= k

\* C13: for every text of the page, findAddressesInText returns as many
\* matches as the text has disjoint occurrences, in ascending order without
\* overlap, each inside the text at an occurrence, with fullMatch the slice
\* of the text and address its lowercase form.
C13_FindAddresses ==
  \A T \in HostTexts :
    LET ms == findAddressesInText(T)
    IN /\ Len(ms) = MaxDisjoint(T)
       /\ \A k \in 1..Len(ms) :
            /\ 0 <= ms[k].startIndex
            /\ ms[k].startIndex < ms[k].endIndex
            /\ ms[k].endIndex <= Len(T)
            /\ IsOccurrence(T, ms[k].startIndex + 1)
            /\ ms[k].fullMatch = SubSeq(T, ms[k].startIndex + 1, ms[k].endIndex)
            /\ Len(ms[k].address) = Len(ms[k].fullMatch)
            /\ \A c \in 1..Len(ms[k].address) :
                 /\ ms[k].address[c] \notin UpperChars
                 /\ ms[k].address[c] = LowerChar(ms[k].fullMatch[c])
            /\ k > 1 => ms[k - 1].endIndex <= ms[k].startIndex

\* the scan has run on a text with three occurrences, one of them in
\* checksum casing, and made three address elements
C13_Witness ==
  /\ pc = "done" /\ enabled
  /\ \E T \in HostTexts :
       /\ Len(findAddressesInText(T)) = 3
       /\ \E k \in 1..3 : findAddressesInText(T)[k].fullMatch = MixedA
  /\ Cardinality({n \in NodeIds : dom[n].kind = "el"
                                  /\ "wt-address-wrapper" \in dom[n].cls}) = 3

\* C14 as the specification states it: a match is 0x followed by exactly 40
\* hex digits, so the hex run after the 0x of a match is 40 digits long.
C14_ExactlyForty ==
  \A T \in HostTexts :
    \A k \in 1..Len(findAddressesInText(T)) :
      RunLen(T, findAddressesInText(T)[k].startIndex + 3, HexChars) = AddrHexLen

\* ---------------------------------------------------- the replacement
\* the runs the claim names for a text and its matches: the text before each
\* match when there is some, the address of the match, the text after the
\* last match when there is some
RECURSIVE ExpectedRuns(_, _, _, _)
ExpectedRuns(text, matches, i, lastIndex) ==
  IF i > Len(matches)
  THEN IF lastIndex < Len(text)
       THEN << [kind |-> "text", text |-> SubSeq(text, lastIndex + 1, Len(text))] >>
       ELSE << >>
  ELSE (IF matches[i].startIndex > lastIndex
        THEN << [kind |-> "text",
                 text |-> SubSeq(text, lastIndex + 1, matches[i].startIndex)] >>
        ELSE << >>)
       \o << [kind |-> "address", text |-> matches[i].address] >>
       \o ExpectedRuns(text, matches, i + 1, matches[i].endIndex)

\* what the nodes are: text nodes with their text, address elements with
\* the address they carry
ActualRuns(d, nodes) ==
  [k \in 1..Len(nodes) |->
     IF d[nodes[k]].kind = "text" THEN [kind |-> "text", text |-> d[nodes[k]].text]
     ELSE IF "wt-address-wrapper" \in d[nodes[k]].cls
          THEN [kind |-> "address", text |-> d[nodes[k]].attrs.data_address]
          ELSE [kind |-> "other", text |-> << >>]]

\* the children of the parent of n in d2 that stand where n stood in d
Replacement(d, d2, n) ==
  LET parent == d[n].parent
      i == IndexOf(d[parent].kids, n)
      len == Len(d2[parent].kids) - Len(d[parent].kids) + 1
  IN SubSeq(d2[parent].kids, i, i + len - 1)

\* C11: for every text node the scan would take that holds matches,
\* processTextNode puts in its place the text runs and the address elements
\* of the matches in order, the other children of the parent stay, and when no
\* match has a tag the text of the replacement is the text of the node.
C11_ReplacementInOrder ==
  \A n \in NodeIds :
    (/\ dom[n].kind = "text"
     /\ acceptNode(dom, n)
     /\ Len(findAddressesInText(dom[n].text)) > 0
     /\ ScanFits(dom))
    => \A d2 \in {processTextNode(dom, n, tagCache, knownAddresses)} :
       \A matches \in {findAddressesInText(dom[n].text)} :
       \A nodes \in {Replacement(dom, d2, n)} :
         /\ ActualRuns(d2, nodes) = ExpectedRuns(dom[n].text, matches, 1, 0)
         /\ Len(nodes) >= Len(matches)
         /\ (\A k \in 1..Len(matches) : matches[k].address \notin DOMAIN tagCache)
              => TextOfKids(d2, nodes, 1) = dom[n].text

\* the scan has replaced the text "s 0xAaa..a t" by a text run, an address
\* element and a text run that read the same
C11_Witness ==
  /\ pc = "done" /\ enabled
  /\ \E e \in NodeIds :
       /\ dom[e].kind = "el" /\ "wt-processed" \in dom[e].cls
       /\ Len(dom[e].kids) = 3
       /\ ActualRuns(dom, dom[e].kids) =
            << [kind |-> "text", text |-> <<"s", " ">>],
               [kind |-> "address", text |-> AddrA],
               [kind |-> "text", text |-> <<" ", "t">>] >>
       /\ TextOfKids(dom, dom[e].kids, 1) = <<"s", " ">> \o MixedA \o <<" ", "t">>

\* ------------------------------------------------- the truncated form
\* T is 0x, lp hex digits, nd dots and ls hex digits
IsTruncatedForm(T, lp, nd, ls) ==
  /\ Len(T) = 2 + lp + nd + ls
  /\ T[1] = "0" /\ T[2] \in {"x", "X"}
  /\ \A i \in 3..(2 + lp) : T[i] \in HexChars
  /\ \A i \in (3 + lp)..(2 + lp + nd) : T[i] = "."
  /\ \A i \in (3 + lp + nd)..Len(T) : T[i] \in HexChars

\* the known addresses that agree with the first lp and the last ls digits
\* of T without regard to case, as positions in the list
Agreeing(T, lp, ls, known) ==
  {k \in 1..Len(known) :
     /\ \A i \in 1..lp : LowerChar(known[k][2 + i]) = LowerChar(T[2 + i])
     /\ \A i \in 1..ls :
          LowerChar(known[k][Len(known[k]) - ls + i]) = LowerChar(T[Len(T) - ls + i])}

\* C15 as the specification states it: for a truncated text with a prefix
\* and a suffix of 3 to 10 hex digits, matchTruncatedAddress gives the first
\* known address that agrees on both sides, lowercased, and null when none
\* agrees.
C15_TruncatedResolved ==
  \A T \in HostTexts :
    \A lp \in 3..10, nd \in {2, 3}, ls \in 3..10 :
      IsTruncatedForm(T, lp, nd, ls) =>
        LET agreeing == Agreeing(T, lp, ls, knownAddresses)
        IN matchTruncatedAddress(T, knownAddresses) =
             IF agreeing = {} THEN << >>
             ELSE normalizeAddress(
                    knownAddresses[CHOOSE k \in agreeing : \A l \in agreeing : k <= l])

\* ------------------------------------------------- transaction links
\* the href names a transaction
HrefOfTransaction(href) ==
  \E i \in 1..Len(href) :
    \/ i + 3 <= Len(href) /\ SubSeq(href, i, i + 3) = <<"/", "t", "x", "/">>
    \/ i + 12 <= Len(href) /\ SubSeq(href, i, i + 12) =
         <<"/", "t", "r", "a", "n", "s", "a", "c", "t", "i", "o", "n", "/">>

WithoutHref(d, e) == [d EXCEPT ![e].attrs.href = << >>]

\* the nearest enclosing link of the text node n is a transaction link
InTransactionLink(d, n) ==
  /\ d[n].parent # NULL
  /\ Closest(d, d[n].parent, "a") # NULL
  /\ HrefOfTransaction(d[Closest(d, d[n].parent, "a")].attrs.href)

\* C16: what findAddressInAttributes returns for an element does not depend
\* on the href of a transaction link, and processTextNode leaves a text node
\* without full address alone when its nearest enclosing link is a
\* transaction link.
C16_NoAddressFromTxLink ==
  /\ \A e \in NodeIds :
       (dom[e].kind = "el" /\ HrefOfTransaction(dom[e].attrs.href)) =>
         \A n \in SubtreeIds(dom, e) :
           dom[n].kind = "el" =>
             findAddressInAttributes(dom, n) =
               findAddressInAttributes(WithoutHref(dom, e), n)
  /\ \A n \in NodeIds :
       (/\ dom[n].kind = "text"
        /\ Len(findAddressesInText(dom[n].text)) = 0
        /\ InTransactionLink(dom, n))
       => processTextNode(dom, n, tagCache, knownAddresses) = dom

\* the scan has run with a known address: the truncated form in the
\* transaction link, whose href holds 40 hex digits in a row, is still plain
\* text, and the truncated form in the titled span is an address element
C16_Witness ==
  /\ pc = "done" /\ enabled /\ Len(knownAddresses) > 0
  /\ \E n \in NodeIds :
       /\ dom[n].kind = "text" /\ dom[n].text = TruncA
       /\ InTransactionLink(dom, n)
       /\ dom[dom[n].parent].tag = "a"
       /\ FirstFullAddress(dom[dom[n].parent].attrs.href) # << >>
       /\ matchTruncatedAddress(dom[n].text, knownAddresses) # << >>
  /\ \E w \in NodeIds : IsWrapper(dom, w) /\ dom[w].attrs.data_address = AddrA

\* ------------------------------------------------------ initialization
\* C18 as the specification states it: whatever the outcome of the
\* GET_ALL_TAGS_DATA request, initialize goes on to the settings, and an
\* enabled content script that ends its initialization without known
\* addresses observes the document and has annotated every full address.
C18_StartsWithoutTags ==
  /\ [][(pc = "tags" /\ pc' # "tags") => pc' = "settings"]_vars
  /\ []((pc = "done" /\ enabled /\ knownAddresses = << >> /\ inserts = 0) =>
          /\ observing
          /\ \A n \in NodeIds :
               (dom[n].kind = "text" /\ acceptNode(dom, n)) =>
                 Len(findAddressesInText(dom[n].text)) = 0)

\* --------------------------------------------------------- the debounce
ScanTimers == {t \in timers : t.kind = "scan"}

\* the text nodes the next scan would annotate
Unscanned(d) ==
  {n \in NodeIds : /\ d[n].kind = "text"
                   /\ acceptNode(d, n)
                   /\ Len(findAddressesInText(d[n].text)) > 0}

\* C12: at most one debounce timer is pending; an insertion of the host page
\* runs no scan itself and, once the document is observed, leaves exactly the
\* timer it has set; when the timer fires the scan runs once, and no timer is
\* pending after it unless that scan has itself inserted nodes.
C12_TrailingDebounce ==
  /\ [](Cardinality(ScanTimers) <= 1 /\ \A t \in ScanTimers : t.held)
  /\ [][(\E parent \in NodeIds, t \in InsertTexts : HostInsert(parent, t)) =>
          /\ Wrappers(dom') = Wrappers(dom)
          /\ Unscanned(dom) \subseteq Unscanned(dom')
          /\ observing => ScanTimers' = {Timer("scan", NoAddr, TRUE, 0)}]_vars
  /\ [][(\E t \in timers : ScanTimerFires(t)) =>
          /\ ScanTimers = {Timer("scan", NoAddr, TRUE, 0)}
          /\ Unscanned(dom') = {}
          /\ ScanTimers' = IF dom' # dom THEN {Timer("scan", NoAddr, TRUE, 0)} ELSE {}]_vars

\* the host page has inserted an address and a panel was rendered; the
\* timer has fired, the inserted address is annotated, nothing is pending
C12_Witness ==
  /\ inserts >= 1 /\ controlPanel # NULL
  /\ ScanTimers = {} /\ scanDebounce = Stale
  /\ Unscanned(dom) = {}
  /\ \E n \in NodeIds :
       /\ origDom[n].kind = "text" /\ origDom[n].text \in InsertTexts
       /\ \E w \in Wrappers(dom) :
            /\ dom[w].parent = origDom[n].parent
            /\ dom[w].attrs.data_address = normalizeAddress(origDom[n].text)

\* ------------------------------------------------------------ last hover
\* C19 as the specification states it: a show timer that renders a panel
\* renders it for the most recent hover, so once a trigger of an address is
\* hovered, no show timer and no GET_TAGS request of a show timer that has
\* fired is pending for another address.
C19_LastHoverWins ==
  [][\A n \in NodeIds :
       MouseEnterTrigger(n) =>
         /\ \A t \in ShowTimers' : t.address = TriggerAddress(dom, n)
         /\ \A r \in ShowRequests' : r.address = TriggerAddress(dom, n)]_vars

\* ------------------------------------------------------ pending address
\* C20 as the specification states it: pendingShowAddress is set only
\* between the start of a hover and the rendering of its panel, so it is
\* null when no show timer and no GET_TAGS request is pending.
C20_PendingOnlyWhileShowing ==
  (ShowTimers = {} /\ ShowRequests = {}) => pendingShowAddress = NoAddr

\* ------------------------------------------------ closing the panel
\* C21: a mouseleave (trigger, panel or bridge) while a panel is visible
\* starts a hide timer whose handle hideTimeout holds and leaves the panel
\* in the document; when a hide timer fires, no panel and no bridge is in
\* the document, controlPanel and controlPanelBridge are null and
\* currentPanelAddress is null.
C21_LeaveHidesPanel ==
  /\ [][MouseLeave /\ controlPanel # NULL =>
          /\ hideTimeout' = Live
          /\ Timer("hide", NoAddr, TRUE, 0) \in timers'
          /\ dom' = dom
          /\ controlPanel' = controlPanel
          /\ currentPanelAddress' = currentPanelAddress]_vars
  /\ [][(\E t \in timers : HideTimerFires(t)) =>
          /\ Len(Panels(dom')) = 0
          /\ Len(Bridges(dom')) = 0
          /\ controlPanel' = NULL /\ controlPanelBridge' = NULL
          /\ currentPanelAddress' = NoAddr]_vars

\* the pointer left everything with the panel of an address visible, the
\* hide timer is pending and nothing else is
C21_Witness ==
  /\ controlPanel # NULL /\ Len(Panels(dom)) = 1
  /\ currentPanelAddress # NoAddr
  /\ hover = << >>
  /\ timers = {Timer("hide", NoAddr, TRUE, 0)}
  /\ inflight = {}

\* C22 as the specification states it: when from some moment on the pointer
\* is outside every trigger, the panel and the bridge, then from some moment
\* on no panel is rendered.
C22_EventuallyClosed ==
  <>[](hover = << >>) => <>[](controlPanel = NULL /\ Len(Panels(dom)) = 0)

\* C23 as the specification states it: with the panel rendered for the
\* address requested last (no show timer pending, so pendingShowAddress is
\* that address), the answer to the request of another, earlier address does
\* not replace the panel.
C23_LateAnswerIgnored ==
  [][\A r \in inflight, tags \in TagsAnswers :
       /\ ShowAnswer(r, tags)
       /\ ShowTimers = {} /\ ShowRequests = {r}
       /\ controlPanel # NULL
       /\ currentPanelAddress = pendingShowAddress
       /\ r.address # pendingShowAddress
       => /\ currentPanelAddress' = currentPanelAddress
          /\ controlPanel' # NULL
          /\ PanelAddress(dom', controlPanel') = pendingShowAddress]_vars

\* C24 as the specification states it: currentPanelAddress is non-null
\* exactly when a panel is rendered, also once the close timer of a save
\* has fired.
C24_AddressIffPanel ==
  /\ currentPanelAddress # NoAddr <=> Len(Panels(dom)) = 1
  /\ currentPanelAddress # NoAddr <=> controlPanel # NULL

\* ------------------------------------------------ resetting the debounce
\* a step in which the host page or the panel code appends nodes
InsertionStep ==
  \/ \E parent \in NodeIds, t \in InsertTexts : HostInsert(parent, t)
  \/ \E address \in {AddrA, AddrB} : PanelShown(address, "none")

\* C25: an insertion that arrives while a debounce timer is pending (less
\* than 500 ms after the one before) replaces that timer by the one it sets
\* and runs no scan, however many insertions came before it, so what is
\* unscanned stays unscanned; and the timer that fires and scans is the one
\* whose handle scanDebounce holds, the timer of the latest insertion.
C25_ResetOnInsertion ==
  /\ [][InsertionStep /\ observing /\ ScanTimers # {} =>
          /\ ScanTimers' = {Timer("scan", NoAddr, TRUE, 0)}
          /\ scanDebounce' = Live
          /\ Wrappers(dom') = Wrappers(dom)
          /\ Unscanned(dom) \subseteq Unscanned(dom')]_vars
  /\ [][\A t \in timers : ScanTimerFires(t) =>
          /\ HeldTimers(timers, "scan") = {t}
          /\ scanDebounce = Live]_vars

\* two insertions without a scan between them: the host page has inserted
\* an address, a panel was appended, the address is still unscanned and one
\* timer is pending
C25_Witness ==
  /\ inserts = 1 /\ controlPanel # NULL
  /\ Unscanned(dom) # {}
  /\ ScanTimers = {Timer("scan", NoAddr, TRUE, 0)}

\* ------------------------------------------------ every insertion scanned
\* the classes of the extension's own UI
UiClasses == ProcessedClasses \ {"wt-processed"}

RECURSIVE InOwnUi(_, _)
InOwnUi(d, e) ==
  IF e = NULL THEN FALSE
  ELSE IF d[e].cls \cap UiClasses # {} THEN TRUE
       ELSE InOwnUi(d, d[e].parent)

\* a text node under the body with a full-form address in it, outside the
\* skipped tags and outside the extension's UI: an address not wrapped yet
Eligible(d, n) ==
  /\ d[n].kind = "text"
  /\ Contains(d, Body, n)
  /\ d[d[n].parent].tag \notin SkippedTags
  /\ ~InOwnUi(d, d[n].parent)
  /\ Len(findAddressesInText(d[n].text)) > 0

\* the content script is initialized and enabled and nothing is pending
Settled ==
  /\ pc = "done" /\ enabled
  /\ ScanTimers = {} /\ inflight = {}

\* C26 as the specification states it: once the host page has stopped
\* mutating and the content script has settled, every full-form address in
\* eligible text is wrapped, wherever the page has inserted it.
C26_EventuallyWrapped ==
  <>[]Settled => <>[](\A n \in NodeIds : ~Eligible(dom, n))

\* ------------------------------------------------ rescanning quiesces
\* the extension appends nodes of its own: a scan that wraps an address or
\* the rendering of the panel
OwnInsertion ==
  \/ \E t \in timers : ScanTimerFires(t) /\ dom' # dom
  \/ \E address \in {AddrA, AddrB} : PanelShown(address, "none")

\* events of the host page, the user and the tag store
OutsideEvent ==
  \/ InsertionStep
  \/ PanelHidden
  \/ TagsUpdated

\* C27, amended: an insertion of the extension itself (a scan that wraps an
\* address, the rendering of the panel) sets the debounce timer again, the
\* removal of the panel sets none; the scan that follows a scan which
\* changed the document changes nothing and leaves no timer pending; while
\* the document is observed and no timer is pending a scan would change
\* nothing; and once the host page, the user and the tag store are quiet,
\* from some moment on no timer is pending (in a document whose scan the
\* node arena has room for).
C27_Quiesces ==
  /\ [][OwnInsertion /\ observing =>
          ScanTimers' = {Timer("scan", NoAddr, TRUE, 0)}]_vars
  /\ [][PanelHidden => ScanTimers' = ScanTimers /\ scanDebounce' = scanDebounce]_vars
  /\ [][\A t \in timers : ScanTimerFires(t) =>
          /\ Scanned(dom') = dom'
          /\ dom' = dom => ScanTimers' = {}]_vars
  /\ [](observing /\ ScanTimers = {} /\ ScanFits(dom) => Scanned(dom) = dom)
  /\ (<>[][~OutsideEvent]_vars => <>[](ScanFits(dom) => ScanTimers = {}))

\* the host page has inserted an address, the rescan has wrapped it (with
\* no tags known, no scan before has made a wrapper for that address), the
\* scan that wrapping scheduled has run and changed nothing: no timer is
\* pending and no panel is rendered
C27_Witness ==
  /\ inserts = 1 /\ reloads = 0 /\ knownAddresses = << >>
  /\ controlPanel = NULL
  /\ observing /\ ScanTimers = {} /\ scanDebounce = Stale
  /\ Scanned(dom) = dom
  /\ \E w \in Wrappers(dom) : dom[w].attrs.data_address = AddrB

\* C27 as the specification states it: the removal of the panel, like the
\* insertions of the extension, schedules a debounced scan.
C27_RemovalSchedulesScan ==
  [][(OwnInsertion \/ PanelHidden) /\ observing =>
       ScanTimers' = {Timer("scan", NoAddr, TRUE, 0)}]_vars

\* ------------------------------------------------ the processed marker
\* the elements that carry the marker
Marked(d) == {n \in NodeIds : d[n].kind = "el" /\ "wt-processed" \in d[n].cls}

\* the TAGS_UPDATED handler has got its tags: markers cleared, address
\* elements unwrapped, scanPage
ReloadWithTags ==
  \E r \in inflight, response \in TagAnswers :
     response.hasTags /\ ReloadAnswer(r, response)

\* C28: no step but the TAGS_UPDATED handler takes the marker from an
\* element that carries it (not a scan, not the fallback path, not the
\* rendering or the removal of the panel, not an insertion of the host
\* page); the handler clears every marker before its scan, so after it no
\* text with a full-form address is left that a marker kept from the scan.
C28_MarkerKept ==
  /\ [][ReloadWithTags \/ Marked(dom) \subseteq Marked(dom')]_vars
  /\ [][ReloadWithTags /\ enabled => \A n \in NodeIds : ~Eligible(dom', n)]_vars

\* the page has inserted an address under a marked element, the scan has
\* run and has left the marker and the address as they were, and the answer
\* for the TAGS_UPDATED handler is on its way
C28_Witness ==
  /\ pc = "done" /\ enabled
  /\ scanDebounce = Stale /\ ScanTimers = {}
  /\ \E n \in NodeIds : Eligible(dom, n) /\ dom[n].parent \in Marked(dom)
  /\ inflight # {}

\* ------------------------------------------------ what a scan leaves alone
\* the marker and the classes of the extension's UI
ShieldClasses ==
  {"wt-processed", "wt-address-wrapper", "wt-address-text", "wt-indicator",
   "wt-control-panel", "wt-control-panel-bridge", "wt-panel-header",
   "wt-panel-address"}

RECURSIVE UnderClass(_, _, _)
UnderClass(d, e, classes) ==
  IF e = NULL THEN FALSE
  ELSE IF d[e].cls \cap classes # {} THEN TRUE
       ELSE UnderClass(d, d[e].parent, classes)

\* a text node whose parent, or an ancestor of it, carries the marker or a
\* class of the extension's UI
Shielded(d, n) ==
  /\ d[n].kind = "text"
  /\ UnderClass(d, d[n].parent, ShieldClasses)

\* C29: a debounced scan leaves every shielded text node as it is (same
\* text, same parent, still a child of it and still shielded), with and
\* without known addresses; so the address text of the hover panel, a
\* truncated form whose element has the full address as its title, is not
\* wrapped by the attribute fallback either.
C29_ShieldedTextUnchanged ==
  [][(\E t \in timers : ScanTimerFires(t)) =>
       \A n \in NodeIds :
          Shielded(dom, n) =>
            /\ dom'[n] = dom[n]
            /\ \E i \in 1..Len(dom'[dom[n].parent].kids) :
                  dom'[dom[n].parent].kids[i] = n
            /\ Shielded(dom', n)]_vars

\* tags are known, the panel of an address is rendered and shows its
\* truncated form, which the attribute fallback would resolve from the title
\* of its element; the scan which the rendering scheduled has run
C29_Witness ==
  /\ knownAddresses # << >>
  /\ controlPanel # NULL
  /\ scanDebounce = Stale /\ ScanTimers = {}
  /\ \E n \in NodeIds :
       /\ Shielded(dom, n)
       /\ Contains(dom, controlPanel, n)
       /\ findAddressInAttributes(dom, dom[n].parent) # << >>
       /\ AttrTextMatch(dom[n].text, 1).found

\* ------------------------------------------------ when the fallbacks run
\* the text nodes a scan of d hands to processTextNode
Accepted(d) == {n \in NodeIds : d[n].kind = "text" /\ acceptNode(d, n)}

HasFullForm(d, n) == Len(findAddressesInText(d[n].text)) > 0

\* a scan runs: the first one of initialize(), or a debounced one
ScanRuns ==
  \/ \E isEnabled \in BOOLEAN : InitSettingsAnswer(isEnabled)
  \/ \E t \in timers : ScanTimerFires(t)

\* C30: a scan with no known address leaves every text node without a
\* full-form address as it is, and its parent too (same classes, same
\* children) unless another text of that parent has a full-form address;
\* and for a text node with a full-form address the result of
\* processTextNode does not depend on the known addresses (no fallback has
\* a part in it).
C30_FallbackOnlyWithKnown ==
  /\ [][ScanRuns /\ knownAddresses = << >> =>
          \A n \in Accepted(dom) :
             ~HasFullForm(dom, n) =>
               /\ dom'[n] = dom[n]
               /\ (\A m \in Accepted(dom) :
                      dom[m].parent = dom[n].parent => ~HasFullForm(dom, m))
                  => dom'[dom[n].parent] = dom[dom[n].parent]]_vars
  /\ [](\A n \in Accepted(dom) :
          HasFullForm(dom, n) /\ ScanFits(dom) =>
            processTextNode(dom, n, tagCache, knownAddresses)
              = processTextNode(dom, n, tagCache, << >>))

\* initialized without tags on a page with a truncated form whose element,
\* or an ancestor, has the full address in an attribute: the attribute
\* fallback would have resolved it, and there is no wrapper and no marker
C30_Witness ==
  /\ pc = "done" /\ enabled /\ knownAddresses = << >>
  /\ Wrappers(dom) = {} /\ Marked(dom) = {}
  /\ \E n \in Accepted(dom) :
       /\ ~HasFullForm(dom, n)
       /\ AttrTextMatch(dom[n].text, 1).found
       /\ findAddressInAttributes(dom, dom[n].parent) # << >>

\* ------------------------------------------------ hint attributes
\* the full address in the hint attributes of one element: title,
\* data-address, a href that is no transaction link, any other data-*
HintOfAttrs(a) ==
  IF FirstFullAddress(a.title) # << >> THEN FirstFullAddress(a.title)
  ELSE IF FirstFullAddress(a.data_address) # << >> THEN FirstFullAddress(a.data_address)
  ELSE IF ~HrefOfTransaction(a.href) /\ FirstFullAddress(a.href) # << >>
       THEN FirstFullAddress(a.href)
  ELSE FirstFullAddress(a.data_hint)

\* the hint of the element nearest to e, from e outward and below the body
RECURSIVE NearestHint(_, _)
NearestHint(d, e) ==
  IF e = NULL \/ e = Body THEN << >>
  ELSE IF HintOfAttrs(d[e].attrs) # << >> THEN HintOfAttrs(d[e].attrs)
  ELSE NearestHint(d, d[e].parent)

\* n is the first child of its parent
FirstChild(d, n) == d[n].parent # NULL /\ d[d[n].parent].kids[1] = n

\* a text of the page as loaded that has no full form, contains 0x, is not
\* inside a transaction link and has a hint on an element around it
HintedText(n) ==
  /\ origDom[n].kind = "text"
  /\ FirstChild(origDom, n)
  /\ ~HasFullForm(origDom, n)
  /\ Includes(origDom[n].text, ZeroX)
  /\ ~InTransactionLink(origDom, n)
  /\ NearestHint(origDom, origDom[n].parent) # << >>

\* the element that held the text n holds an address element for address
AnnotatedWith(n, address) ==
  \E w \in Wrappers(dom) :
     /\ dom[w].parent = origDom[n].parent
     /\ dom[w].attrs.data_address = address

RECURSIVE HasWrappableForm(_, _)
HasWrappableForm(text, i) ==
  /\ i <= Len(text)
  /\ \/ TruncAt(text, i, 2, 10).found
     \/ BareAt(text, i).found
     \/ HasWrappableForm(text, i + 1)

LeastPos(P(_), n) ==
  IF \E i \in 1..n : P(i)
  THEN CHOOSE i \in 1..n : P(i) /\ \A j \in 1..(i - 1) : ~P(j)
  ELSE 0

NoChoice == [found |-> FALSE, index |-> 0, length |-> 0, address |-> << >>]

\* the span of the text the fallback path is to wrap, and its address: the
\* first wrappable form with the address of the nearest hint, else the first
\* truncated form that resolves, else the first short form that resolves
FallbackChoice(text, hint, known) ==
  LET wrappable(i) == TruncAt(text, i, 2, 10).found \/ BareAt(text, i).found
      truncated(i) ==
        /\ TruncAt(text, i, 2, 10).found
        /\ matchTruncatedAddress(
             SubSeq(text, i, i + TruncAt(text, i, 2, 10).length - 1), known) # << >>
      short(i) ==
        /\ ShortAt(text, i).found
        /\ matchShortAddress(
             SubSeq(text, i, i + ShortAt(text, i).length - 1), known) # << >>
      w == LeastPos(wrappable, Len(text))
      t == LeastPos(truncated, Len(text))
      s == LeastPos(short, Len(text))
  IN IF hint # << >> /\ Includes(text, ZeroX) /\ w > 0
     THEN [found |-> TRUE, index |-> w - 1,
           length |-> IF TruncAt(text, w, 2, 10).found
                      THEN TruncAt(text, w, 2, 10).length ELSE BareAt(text, w).length,
           address |-> normalizeAddress(hint)]
     ELSE IF t > 0
     THEN [found |-> TRUE, index |-> t - 1, length |-> TruncAt(text, t, 2, 10).length,
           address |-> matchTruncatedAddress(
                         SubSeq(text, t, t + TruncAt(text, t, 2, 10).length - 1), known)]
     ELSE IF s > 0
     THEN [found |-> TRUE, index |-> s - 1, length |-> ShortAt(text, s).length,
           address |-> matchShortAddress(
                         SubSeq(text, s, s + ShortAt(text, s).length - 1), known)]
     ELSE NoChoice

\* the choice for the text node n of the page as loaded
ChoiceOf(n) ==
  IF knownAddresses = << >> \/ InTransactionLink(origDom, n) THEN NoChoice
  ELSE FallbackChoice(origDom[n].text,
                      NearestHint(origDom, origDom[n].parent), knownAddresses)

\* what an element shows: its texts, and the addresses of its address
\* elements
Shown(d, kids) ==
  [i \in 1..Len(kids) |->
     IF IsWrapper(d, kids[i]) THEN [wrapped |-> TRUE, s |-> d[kids[i]].attrs.data_address]
     ELSE [wrapped |-> FALSE, s |-> d[kids[i]].text]]

\* the text, with the chosen span replaced by an address element
WrappedOnce(text, c) ==
  (IF c.index > 0 THEN << [wrapped |-> FALSE, s |-> SubSeq(text, 1, c.index)] >>
   ELSE << >>)
  \o << [wrapped |-> TRUE, s |-> c.address] >>
  \o (IF c.index + c.length < Len(text)
      THEN << [wrapped |-> FALSE, s |-> SubSeq(text, c.index + c.length + 1, Len(text))] >>
      ELSE << >>)

\* the texts kids[i..] of an element of the page as loaded after the
\* fallback path: the first one with a choice is wrapped once, all others
\* stay as they are
RECURSIVE ShownAfterFallback(_, _, _)
ShownAfterFallback(kids, i, done) ==
  IF i > Len(kids) THEN << >>
  ELSE IF ~done /\ ChoiceOf(kids[i]).found
       THEN WrappedOnce(origDom[kids[i]].text, ChoiceOf(kids[i]))
            \o ShownAfterFallback(kids, i + 1, TRUE)
       ELSE << [wrapped |-> FALSE, s |-> origDom[kids[i]].text] >>
            \o ShownAfterFallback(kids, i + 1, done)

\* the elements of the page as loaded whose children are texts without a
\* full form
FallbackParents ==
  {e \in NodeIds :
     /\ origDom[e].kind = "el" /\ Len(origDom[e].kids) > 0
     /\ \A i \in 1..Len(origDom[e].kids) :
          /\ origDom[origDom[e].kids[i]].kind = "text"
          /\ ~HasFullForm(origDom, origDom[e].kids[i])}

\* C32: after the first scan an element whose texts have no full form holds
\* at most one address element: that of the first of its texts for which the
\* fallback path finds something, chosen in the order attribute-derived
\* address, first truncated form that resolves, first short form that
\* resolves. The element is then marked processed, all other candidates of
\* its texts stay plain text, and a further scan changes nothing.
C32_OneSpanInOrder ==
  (pc = "done" /\ enabled) =>
    /\ \A e \in FallbackParents :
         /\ Shown(dom, dom[e].kids) = ShownAfterFallback(origDom[e].kids, 1, FALSE)
         /\ Cardinality({w \in Wrappers(dom) : dom[w].parent = e}) <= 1
         /\ (\E w \in Wrappers(dom) : dom[w].parent = e) => "wt-processed" \in dom[e].cls
    /\ Scanned(dom) = dom

\* a text with two resolvable truncated forms, the first of them wrapped and
\* the second left as text; and a first text with an unresolvable form whose
\* resolvable sibling was wrapped
C32_Witness ==
  /\ pc = "done" /\ enabled
  /\ \E e \in FallbackParents :
       /\ origDom[origDom[e].kids[1]].text = TruncA \o <<" ">> \o TruncA
       /\ origDom[e].attrs = NoAttrs /\ origDom[origDom[e].parent].attrs = NoAttrs
       /\ Shown(dom, dom[e].kids) =
            << [wrapped |-> TRUE, s |-> AddrA],
               [wrapped |-> FALSE, s |-> <<" ">> \o TruncA] >>
               \o (IF Len(origDom[e].kids) > 1
                   THEN << [wrapped |-> FALSE, s |-> TruncA] >> ELSE << >>)
       /\ Len(origDom[e].kids) > 1

\* ------------------------------------------------ reloading the cache
\* cache holds exactly the entries of the tags of a response
HoldsExactly(cache, tags) ==
  /\ \A a \in DOMAIN cache : \E i \in 1..Len(tags) : tags[i].address = a
  /\ \A i \in 1..Len(tags) :
       /\ tags[i].address \in DOMAIN cache
       /\ cache[tags[i].address].name = tags[i].name
       /\ cache[tags[i].address].entity = tags[i].entity

\* C33: the answer to the reload of TAGS_UPDATED, when it carries tags,
\* leaves in tagCache exactly the entries of the answer; when it carries
\* none, tagCache, knownAddresses, the document (markers and address elements)
\* and the timers stay as they are; and nothing but an answer with tags (to
\* initialize or to the reload) changes tagCache or knownAddresses.
C33_ReplacedWholesale ==
  [][/\ \A r \in inflight, response \in TagAnswers :
          ReloadAnswer(r, response) =>
            IF response.hasTags
            THEN HoldsExactly(tagCache', response.tags)
            ELSE UNCHANGED <<tagCache, knownAddresses, dom, timers, scanDebounce>>
     /\ (tagCache' # tagCache \/ knownAddresses' # knownAddresses) =>
          \/ ReloadWithTags
          \/ \E response \in TagAnswers : response.hasTags /\ InitTagsAnswer(response)
    ]_vars

\* after a reload the cache is empty although the page shows an address
\* element for AddrA and a reload answer is no longer awaited
C33_Witness ==
  /\ pc = "done" /\ enabled
  /\ reloads > 0 /\ inflight = {}
  /\ DOMAIN tagCache = {}
  /\ AddrA \in WrapperAddresses(dom)

\* ------------------------------------------------ the cache and its keys
\* C34: in every state knownAddresses lists exactly the keys of tagCache,
\* each of them once.
C34_KnownIsKeySet ==
  /\ {knownAddresses[i] : i \in 1..Len(knownAddresses)} = DOMAIN tagCache
  /\ Len(knownAddresses) = Cardinality(DOMAIN tagCache)

\* the cache is loaded and a reload is awaited
C34_Witness ==
  /\ DOMAIN tagCache = {AddrA}
  /\ knownAddresses = <<AddrA>>
  /\ \E r \in inflight : r.type = "GET_ALL_TAGS_DATA"

\* ------------------------------------------------ truncate, then match
\* C37: for an address of 42 characters and startChars, endChars from 3 to 8,
\* matchTruncatedAddress finds the address again from its truncated form and
\* returns it in lowercase; truncateAddress returns a string no longer than
\* startChars + endChars + 2 as it is.
C37_RoundTrip ==
  /\ (/\ call.pc = "matched"
      /\ Len(call.address) = AddrHexLen + 2
      /\ call.startChars \in 3..8 /\ call.endChars \in 3..8)
     => call.matched = normalizeAddress(call.address)
  /\ (/\ call.pc \in {"truncated", "matched"}
      /\ Len(call.address) <= call.startChars + call.endChars + 2)
     => call.truncated = call.address

\* the address with distinct digits, cut to 0x123...9876, is found again
C37_Witness ==
  /\ call.pc = "matched"
  /\ call.address = AddrDigits
  /\ call.startChars = 3 /\ call.endChars = 4
  /\ call.truncated = ZeroX \o <<"1", "2", "3", ".", ".", ".", "9", "8", "7", "6">>
  /\ call.matched = ZeroX \o <<"1", "2", "3", "4", "5", "6", "7", "8", "9", "a">>
                      \o Rep("c", 20)
                      \o <<"f", "e", "d", "c", "b", "a", "9", "8", "7", "6">>

\* ------------------------------------------------ the SnowScan pages
SnowOver == snowscan.pc \in {"returned", "thrown", "rejected"}

\* C38: a started scrape whose fetches all settle comes to an end; it asks
\* for at most PageLimit pages; a page that answers non-OK, has no rows,
\* gives no tag or has no link to a next page is the last one asked for; and
\* the scrape throws exactly when it ends with no tag.
C38_ScrapeTerminates ==
  /\ (snowscan.pc # "idle") ~> SnowOver
  /\ [](snowscan.fetched <= PageLimit /\ snowscan.currentPage <= PageLimit + 1)
  /\ [](snowscan.pc = "thrown" => snowscan.tags = 0)
  /\ [](snowscan.pc = "returned" => snowscan.tags > 0)
  /\ [][/\ SnowFetchAnswer(FALSE) => SnowOver'
        /\ \A rows \in 0..MaxRows, pageCount \in 0..MaxRows, foundNextPage \in BOOLEAN :
             (/\ SnowTextAnswer(rows, pageCount, foundNextPage)
              /\ (rows = 0 \/ pageCount = 0 \/ ~foundNextPage))
             => SnowOver'
        /\ SnowOver => snowscan' = snowscan
       ]_vars

\* the scrape returned after it had asked for page 100
C38_Witness ==
  /\ snowscan.pc = "returned"
  /\ snowscan.fetched = PageLimit
  /\ snowscan.currentPage = PageLimit + 1
  /\ snowscan.tags >= PageLimit

\* ------------------------------------------------ the keep-alive interval
LongRunningTypes ==
  {"IMPORT_CSV", "IMPORT_TAGS", "EXPORT_ALL_SOURCES", "UPDATE_SOURCE", "REMOVE_SOURCE"}

\* the handlers of long-running messages that are inside their try block
LongRunning ==
  {h \in BagToSet(background.handlers) : h.type \in LongRunningTypes /\ h.phase = "run"}

\* C39: while a long-running message is being handled (it has called
\* startKeepAlive and has not reached its finally block) exactly one
\* keep-alive interval is running; when none is being handled, none is
\* running.
C39_KeepAliveWhileHandling ==
  /\ LongRunning # {} => background.intervals = 1 /\ background.keepAliveInterval # NULL
  /\ LongRunning = {} => background.intervals = 0 /\ background.keepAliveInterval = NULL

\* ------------------------------------------------ telling the tabs
\* the messages that change the tag store
StoreChangingTypes ==
  {"IMPORT_CSV", "IMPORT_ARKHAM_TAGS", "IMPORT_SNOWSCAN_TAGS", "IMPORT_TAGS",
   "UPDATE_SOURCE", "REMOVE_SOURCE"}

\* the step calls chrome.tabs.query for a notification
NotifiesNow == background'.tabQueries = background.tabQueries + 1

\* the step answers a message with a result, or with an error
AnswersNow(error) ==
  background'.responses = background.responses (+) SetToBag({[error |-> error]})

\* the step in which the last store call of the handler h completes
LastStoreCallDone(h) ==
  /\ StepDone(h)
  /\ Len(h.steps) = 1
  /\ h.steps[1].op \in {"import", "clear"}
  /\ background'.store = StoreAfter(background.store, h.steps[1])

\* C35: a handler of a store-changing message that returns a result notifies
\* the tabs in the step in which its last store call has completed, and
\* nothing else notifies: a handler that throws (its store call, parseCSV or
\* initDatabase failed, or the type is unknown) and the handlers of read-only
\* messages do not.  The notification sends every tab a message that has a
\* type, TAGS_UPDATED, and nothing else.
C35_BroadcastAfterChange ==
  [][/\ \A h \in BagToSet(background.handlers) :
          (/\ h.type \in StoreChangingTypes
           /\ (StepDone(h) \/ \E csvOk \in BOOLEAN : DatabaseReady(h, csvOk))
           /\ AnswersNow(FALSE))
          => NotifiesNow /\ LastStoreCallDone(h)
     /\ background'.tabQueries > background.tabQueries =>
          /\ NotifiesNow
          /\ AnswersNow(FALSE)
          /\ \E h \in BagToSet(background.handlers) :
                h.type \in StoreChangingTypes /\ LastStoreCallDone(h)
     /\ AnswersNow(TRUE) => background'.tabQueries = background.tabQueries
     /\ TabsQueried =>
          /\ \A t \in Tabs : \E m \in background'.sent : m.tab = t
          /\ \A m \in background'.sent :
                m.tab \in Tabs /\ m.message = [type |-> "TAGS_UPDATED"]
    ]_vars

\* the tabs were told after a file source was imported; another notification
\* waits for its callback
C35_Witness ==
  /\ "file" \in background.store
  /\ {m.tab : m \in background.sent} = Tabs
  /\ background.tabQueries = 1
  /\ BagIn([error |-> FALSE], background.responses)

\* ------------------------------------------------ saving a tag
\* the service worker stores a tag for a message of this type: the type is a
\* case of its switch, and the case imports
StoresTag(type) ==
  IsCase(type) /\ \E i \in 1..Len(Awaits(type)) : Awaits(type)[i].op = "import"

SaveTimers(ts) == {t \in ts : t.kind = "save"}

\* C36: when the answer of the service worker to the form's message arrives,
\* the form shows success and sets the timer that closes the panel only if
\* the service worker stored the tag; an answer to a type it has no case for
\* (an error, nothing stored) sets no such timer.
C36_SuccessOnlyIfStored ==
  [][\A r \in inflight :
        (SaveAnswer(r, TRUE) /\ SaveTimers(timers') # SaveTimers(timers))
        => StoresTag(r.type)
    ]_vars

====
